---- MODULE Spec2Model ----
(***************************************************************************)
(* Constraint systems of the anon-aadhaar halo2 circuits: the conditional  *)
(* disclosure gadget (IdentityCircuit), the timestamp gadget               *)
(* (DigitBytesToTimestamp), the signal gadget (SquareCircuit), the         *)
(* signature gadget, the nullifier gadget (NullifierCircuit), the QR       *)
(* verifier circuit and the composition.  configure builds the constraint  *)
(* system cs, a circuit struct is synthesized into a cell assignment, a    *)
(* prover may overwrite one cell of the assignment, and the mock prover's  *)
(* verify evaluates every gate.                                            *)
(***************************************************************************)
EXTENDS Integers, Sequences, FiniteSets, TLC

VARIABLES cs, circuit, cells, selectors, instance, pc, verdict

vars == <<cs, circuit, cells, selectors, instance, pc, verdict>>

(***************************************************************************)
(* The prime field F.  The circuits are generic over F; the model works in *)
(* the prime field of order 2^30 - 35, large enough to hold every witness  *)
(* value of the tests without reduction.                                   *)
(***************************************************************************)
FieldModulus == 1073741789

FAdd(a, b) == (a + b) % FieldModulus

FSub(a, b) == ((a + FieldModulus) - b) % FieldModulus

RECURSIVE FMul(_, _)
FMul(a, b) ==
    IF b = 0 THEN 0
    ELSE LET d == (2 * FMul(a, b \div 2)) % FieldModulus
         IN  IF b % 2 = 1 THEN (d + a) % FieldModulus ELSE d

\* F::from(u64)
FromU64(u) == u % FieldModulus

\* Option<T>
Some(x) == [some |-> TRUE, v |-> x]

NoneBool == [some |-> FALSE, v |-> FALSE]

UnwrapOr(o, d) == IF o.some THEN o.v ELSE d

\* bool as u64
BoolAsU64(b) == IF b THEN 1 ELSE 0

\* the empty assignment
NoCells == [c \in {} |-> 0]

\* the value a gate reads from a cell; an unassigned cell evaluates to zero
Query(q, c) == IF c \in DOMAIN q THEN q[c] ELSE 0

\* the value of a selector on row 0
QuerySelector(sel, s) == IF s \in sel THEN 1 ELSE 0

(***************************************************************************)
(* IdentityCircuit (conditional_secrets.rs)                                *)
(***************************************************************************)
StateLen == 5

StateColumn == <<"state_0", "state_1", "state_2", "state_3", "state_4">>

QrDataStateColumn == <<"qr_data_state_0", "qr_data_state_1", "qr_data_state_2",
                       "qr_data_state_3", "qr_data_state_4">>

RevealColumns == {"reveal_age_above_18", "reveal_gender", "reveal_pincode", "reveal_state"}

IdentityColumns ==
    RevealColumns
    \cup {"age_above_18", "qr_data_age_above_18", "gender", "qr_data_gender",
          "pincode", "qr_data_pincode"}
    \cup {StateColumn[i] : i \in 1..StateLen}
    \cup {QrDataStateColumn[i] : i \in 1..StateLen}

\* RevealConstraint with the constant one replaced by two
RevealConstraintOffByOne(q, sel, col) ==
    FMul(QuerySelector(sel, "s"),
         FMul(Query(q, col), FSub(Query(q, col), 2)))

\* s * reveal * (reveal - 1), the polynomial of the four "constraint" gates
RevealConstraint(q, sel, col) ==
    FMul(QuerySelector(sel, "s"),
         FMul(Query(q, col), FSub(Query(q, col), 1)))

RevealAgeAbove18Constraint(q, sel) == RevealConstraint(q, sel, "reveal_age_above_18")

\* AgeAbove18Assignment without the reveal mask
AgeAbove18AssignmentUnmasked(q, sel) ==
    FMul(QuerySelector(sel, "s"),
         FSub(Query(q, "age_above_18"), Query(q, "qr_data_age_above_18")))

AgeAbove18Assignment(q, sel) ==
    FMul(QuerySelector(sel, "s"),
         FSub(Query(q, "age_above_18"),
              FMul(Query(q, "reveal_age_above_18"), Query(q, "qr_data_age_above_18"))))

GenderConstraint(q, sel) == RevealConstraint(q, sel, "reveal_gender")

\* GenderAssignment with the reference added instead of subtracted
GenderAssignmentSum(q, sel) ==
    FMul(QuerySelector(sel, "s"), FAdd(Query(q, "gender"), Query(q, "qr_data_gender")))

GenderAssignment(q, sel) ==
    FMul(QuerySelector(sel, "s"), FSub(Query(q, "gender"), Query(q, "qr_data_gender")))

PincodeConstraint(q, sel) == RevealConstraint(q, sel, "reveal_pincode")

PincodeAssignment(q, sel) ==
    FMul(QuerySelector(sel, "s"), FSub(Query(q, "pincode"), Query(q, "qr_data_pincode")))

StateConstraint(q, sel) == RevealConstraint(q, sel, "reveal_state")

\* StateAssignment whose loop stops one byte early
StateAssignmentShort(q, sel) ==
    [i \in 1..StateLen |->
        IF i = StateLen THEN 0
        ELSE FMul(QuerySelector(sel, "s"),
                  FSub(Query(q, StateColumn[i]), Query(q, QrDataStateColumn[i])))]

StateAssignment(q, sel) ==
    [i \in 1..StateLen |->
        FMul(QuerySelector(sel, "s"),
             FSub(Query(q, StateColumn[i]), Query(q, QrDataStateColumn[i])))]

\* every polynomial that IdentityCircuit::configure registers
IdentityGates(q, sel) ==
    <<RevealAgeAbove18Constraint(q, sel), AgeAbove18Assignment(q, sel),
      GenderConstraint(q, sel), GenderAssignment(q, sel),
      PincodeConstraint(q, sel), PincodeAssignment(q, sel),
      StateConstraint(q, sel)>> \o StateAssignment(q, sel)

\* MockProver::verify of the identity region: every cell an enabled gate
\* queries is assigned, and every polynomial evaluates to zero
IdentityVerify(q, sel) ==
    /\ "s" \in sel => IdentityColumns \subseteq DOMAIN q
    /\ LET gates == IdentityGates(q, sel)
       IN  \A g \in DOMAIN gates : gates[g] = 0

\* the cells IdentityCircuit::synthesize assigns on row 0
IdentitySynthesizeCells(c) ==
    LET fixed ==
            [col \in IdentityColumns \ ({StateColumn[i] : i \in 1..StateLen}
                                        \cup {QrDataStateColumn[i] : i \in 1..StateLen}) |->
                CASE col = "reveal_age_above_18" ->
                        FromU64(BoolAsU64(UnwrapOr(c.reveal_age_above_18, FALSE)))
                  [] col = "qr_data_age_above_18" -> FromU64(UnwrapOr(c.qr_data_age_above_18, 0))
                  [] col = "age_above_18" -> FromU64(UnwrapOr(c.age_above_18, 0))
                  [] col = "reveal_gender" ->
                        FromU64(BoolAsU64(UnwrapOr(c.reveal_gender, FALSE)))
                  [] col = "gender" -> FromU64(UnwrapOr(c.gender, 0))
                  [] col = "qr_data_gender" -> FromU64(UnwrapOr(c.qr_data_gender, 0))
                  [] col = "reveal_pincode" ->
                        FromU64(BoolAsU64(UnwrapOr(c.reveal_pincode, FALSE)))
                  [] col = "pincode" -> FromU64(UnwrapOr(c.pincode, 0))
                  [] col = "qr_data_pincode" -> FromU64(UnwrapOr(c.qr_data_pincode, 0))
                  [] col = "reveal_state" ->
                        FromU64(BoolAsU64(UnwrapOr(c.reveal_state, FALSE)))]
        st == UnwrapOr(c.state, <<>>)
        qst == UnwrapOr(c.qr_data_state, <<>>)
        stateCols == {StateColumn[i] : i \in 1..Len(st)}
        qrCols == {QrDataStateColumn[i] : i \in 1..Len(qst)}
    IN  [col \in DOMAIN fixed \cup stateCols \cup qrCols |->
            IF col \in DOMAIN fixed THEN fixed[col]
            ELSE IF col \in stateCols
                 THEN FromU64(st[CHOOSE i \in 1..Len(st) : StateColumn[i] = col])
                 ELSE FromU64(qst[CHOOSE i \in 1..Len(qst) : QrDataStateColumn[i] = col])]

\* config.state[i] and config.qr_data_state[i] index a vector of five columns
IdentitySynthesizePanics(c) ==
    \/ Len(UnwrapOr(c.state, <<>>)) > StateLen
    \/ Len(UnwrapOr(c.qr_data_state, <<>>)) > StateLen

(***************************************************************************)
(* Witnesses of the circuit structs                                        *)
(***************************************************************************)
RevealInputs == {Some(TRUE), Some(FALSE)}

AgeInputs == {Some(0), Some(1), Some(25)}

QrDataAgeInputs == {Some(1), Some(25)}

GenderInputs == {Some(1), Some(2)}

QrDataGenderInputs == {Some(1)}

PincodeInputs == {Some(123456)}

QrDataPincodeInputs == {Some(123456)}

StateInputs == {Some(<<10, 11, 12, 13, 14>>)}

QrDataStateInputs == {Some(<<10, 11, 12, 13, 14>>), Some(<<10, 11, 12, 13, 15>>)}

\* IdentityCircuit::new
IdentityInputs ==
    [reveal_age_above_18 : RevealInputs, age_above_18 : AgeInputs,
     qr_data_age_above_18 : QrDataAgeInputs,
     reveal_gender : RevealInputs, gender : GenderInputs, qr_data_gender : QrDataGenderInputs,
     reveal_pincode : RevealInputs, pincode : PincodeInputs,
     qr_data_pincode : QrDataPincodeInputs,
     reveal_state : RevealInputs, state : StateInputs, qr_data_state : QrDataStateInputs]

\* the values a prover who does not follow synthesize may write into a cell
TamperValues == {0, 1, 2, FieldModulus - 1}

(***************************************************************************)
(* The constraint system a configure function builds: columns and          *)
(* selectors are numbered in the order they are declared                   *)
(***************************************************************************)
NewConstraintSystem ==
    [num_advice_columns |-> 0, num_instance_columns |-> 0, num_selectors |-> 0,
     gates |-> <<>>, equality |-> {}]

\* meta.create_gate(name, ..)
CreateGate(meta, name) == [meta EXCEPT !.gates = Append(@, name)]

\* the two circuits that are configured, or synthesized, side by side
Runs == {1, 2}

\* IdentityConfigure whose selector depends on how often configure has run
IdentityConfigureNotRepeatable(meta) ==
    LET done == Cardinality({r \in Runs : pc[r] = "configured"})
    IN  [config |-> [s |-> meta.num_selectors + done],
         meta |-> [meta EXCEPT !.num_advice_columns = @ + 10 + 2 * StateLen,
                               !.num_selectors = @ + 1 + done]]

\* IdentityCircuit::configure
IdentityConfigure(meta) ==
    LET a == meta.num_advice_columns
    IN  [config |->
            [reveal_age_above_18 |-> a, age_above_18 |-> a + 1, qr_data_age_above_18 |-> a + 2,
             reveal_gender |-> a + 3, gender |-> a + 4, qr_data_gender |-> a + 5,
             reveal_pincode |-> a + 6, pincode |-> a + 7, qr_data_pincode |-> a + 8,
             reveal_state |-> a + 9,
             state |-> [i \in 1..StateLen |-> a + 9 + i],
             qr_data_state |-> [i \in 1..StateLen |-> a + 9 + StateLen + i],
             s |-> meta.num_selectors],
         meta |->
            [meta EXCEPT !.num_advice_columns = a + 10 + 2 * StateLen,
                         !.num_selectors = @ + 1,
                         !.gates = @ \o <<"revealAgeAbove18 constraint", "ageAbove18 assignment",
                                          "gender constraint", "gender assignment",
                                          "pincode constraint", "pincode assignment",
                                          "state constraint", "state assignment">>]]

(***************************************************************************)
(* MockProver::run and MockProver::verify of one circuit                   *)
(***************************************************************************)
InitIdentity ==
    /\ cs = IdentityConfigure(NewConstraintSystem).meta
    /\ circuit \in IdentityInputs
    /\ cells = NoCells
    /\ selectors = {}
    /\ instance = <<>>
    /\ pc = "new"
    /\ verdict = "none"

\* IdentityCircuit::synthesize: enable s on row 0, assign the region
SynthesizeIdentity ==
    /\ pc = "new"
    /\ IF IdentitySynthesizePanics(circuit)
       THEN /\ pc' = "panic"
            /\ UNCHANGED <<cells, selectors>>
       ELSE /\ pc' = "synthesized"
            /\ selectors' = selectors \cup {"s"}
            /\ cells' = IdentitySynthesizeCells(circuit)
    /\ UNCHANGED <<cs, circuit, instance, verdict>>

\* a prover overwrites one assigned cell with a field element of its choice
Tamper ==
    /\ pc = "synthesized"
    /\ \E c \in DOMAIN cells :
         \E v \in TamperValues \cup {FSub(0, cells[c])} :
            cells' = [cells EXCEPT ![c] = v]
    /\ pc' = "tampered"
    /\ UNCHANGED <<cs, circuit, selectors, instance, verdict>>

VerifyIdentity ==
    /\ pc \in {"synthesized", "tampered"}
    /\ verdict' = IF IdentityVerify(cells, selectors) THEN "ok" ELSE "err"
    /\ pc' = "verified"
    /\ UNCHANGED <<cs, circuit, cells, selectors, instance>>

NextIdentity == SynthesizeIdentity \/ Tamper \/ VerifyIdentity

SpecIdentity == InitIdentity /\ [][NextIdentity]_vars

(***************************************************************************)
(* DigitBytesToTimestamp (timestamp.rs)                                    *)
(***************************************************************************)
TimestampColumns == {"year", "month", "day", "hour", "minute", "second"}

\* Scalar::to_bytes()[0]: the least significant byte of the little-endian scalar
LowByte(x) == x % 256

\* the cells DigitBytesToTimestamp::synthesize assigns on row 0
TimestampSynthesizeCells(c) ==
    [col \in TimestampColumns |->
        CASE col = "year" -> FromU64(LowByte(c.year))
          [] col = "month" -> FromU64(LowByte(c.month))
          [] col = "day" -> FromU64(LowByte(c.day))
          [] col = "hour" -> FromU64(LowByte(c.hour))
          [] col = "minute" -> FromU64(LowByte(c.minute))
          [] col = "second" -> FromU64(LowByte(c.second))]

\* a gate that registers no pair
DateTimeConstraintsNone(q, max_years) == <<>>

\* the pairs (expression, constant) of the gate date_time_constraints
DateTimeConstraints(q, max_years) ==
    <<  <<FAdd(FSub(Query(q, "year"), 1970), 1), 1>>,
        <<FAdd(FSub(max_years, Query(q, "year")), 1), 1>>,
        <<FSub(Query(q, "month"), 1), 0>>,
        <<FAdd(FSub(12, Query(q, "month")), 1), 1>>,
        <<FSub(Query(q, "day"), 1), 0>>,
        <<FAdd(FSub(31, Query(q, "day")), 1), 1>>,
        <<Query(q, "hour"), 0>>,
        <<FAdd(FSub(23, Query(q, "hour")), 1), 1>>,
        <<Query(q, "minute"), 0>>,
        <<FAdd(FSub(59, Query(q, "minute")), 1), 1>>,
        <<Query(q, "second"), 0>>,
        <<FAdd(FSub(59, Query(q, "second")), 1), 1>>  >>

\* CalculateOut without the term of the days
CalculateOutNoDays(q) ==
    LET expected_out ==
            FAdd(FAdd(FMul(Query(q, "hour"), 3600), FMul(Query(q, "minute"), 60)),
                 Query(q, "second"))
    IN  << <<FSub(Query(q, "out"), expected_out), 0>> >>

\* the pair of the gate calculate_out
CalculateOut(q) ==
    LET expected_out ==
            FAdd(FAdd(FAdd(FMul(Query(q, "total_days_passed"), 86400),
                           FMul(Query(q, "hour"), 3600)),
                      FMul(Query(q, "minute"), 60)),
                 Query(q, "second"))
    IN  << <<FSub(Query(q, "out"), expected_out), 0>> >>

\* a gate constrains its expression to the constant paired with it
PairHolds(pair) == pair[1] = pair[2]

\* the gates carry no selector: they are evaluated on the assigned row 0 and on
\* the rows synthesize leaves unassigned
TimestampRows(q) == <<q, NoCells>>

\* config.max_years is never declared by configure: any field element
MaxYearsChoices == {0, 2100}

TimestampVerify(q, max_years) ==
    \A r \in DOMAIN TimestampRows(q) :
        LET pairs == DateTimeConstraints(TimestampRows(q)[r], max_years)
                        \o CalculateOut(TimestampRows(q)[r])
        IN  \A g \in DOMAIN pairs : PairHolds(pairs[g])

YearInputs == {1969, 1970, 2023}

MonthInputs == {0, 1, 7, 12, 13}

DayInputs == {0, 1, 8, 31, 32}

HourInputs == {0, 12, 23, 24}

MinuteInputs == {0, 34, 60}

SecondInputs == {0, 56, 60}

TimestampInputs ==
    [year : YearInputs, month : MonthInputs, day : DayInputs,
     hour : HourInputs, minute : MinuteInputs, second : SecondInputs]

\* DigitBytesToTimestamp::configure: ten advice columns with equality
\* enabled, and no gate
TimestampConfigure(meta) ==
    LET a == meta.num_advice_columns
    IN  [config |->
            [days_passed |-> a + 1, total_days_passed |-> a + 2, year |-> a + 3,
             month |-> a + 4, day |-> a + 5, hour |-> a + 6, minute |-> a + 7,
             second |-> a + 8, out |-> a + 9],
         meta |->
            [meta EXCEPT !.num_advice_columns = a + 10,
                         !.equality = @ \cup {<<"advice", a + i>> : i \in 0..9}]]

\* the gates DigitBytesToTimestamp::synthesize creates after it has assigned
\* its cells
TimestampSynthesizeGates(meta) ==
    CreateGate(CreateGate(meta, "date_time_constraints"), "calculate_out")

InitTimestamp ==
    /\ cs = TimestampConfigure(NewConstraintSystem).meta
    /\ circuit \in TimestampInputs
    /\ cells = NoCells
    /\ selectors = {}
    /\ instance = <<>>
    /\ pc = "new"
    /\ verdict = "none"

\* DigitBytesToTimestamp::synthesize: six assign_advice calls on row 0
SynthesizeTimestamp ==
    /\ pc = "new"
    /\ cells' = TimestampSynthesizeCells(circuit)
    /\ cs' = TimestampSynthesizeGates(cs)
    /\ pc' = "synthesized"
    /\ UNCHANGED <<circuit, selectors, instance, verdict>>

VerifyTimestamp ==
    /\ pc \in {"synthesized", "tampered"}
    /\ \E max_years \in MaxYearsChoices :
          verdict' = IF TimestampVerify(cells, max_years) THEN "ok" ELSE "err"
    /\ pc' = "verified"
    /\ UNCHANGED <<cs, circuit, cells, selectors, instance>>

NextTimestamp == SynthesizeTimestamp \/ Tamper \/ VerifyTimestamp

SpecTimestamp == InitTimestamp /\ [][NextTimestamp]_vars

(***************************************************************************)
(* SquareCircuit (signal.rs)                                               *)
(***************************************************************************)
SquareColumns == {"advice_0", "advice_1"}

\* the square gate with the product replaced by a doubling
SquareGateDouble(q, sel) ==
    FMul(QuerySelector(sel, "selector"),
         FSub(Query(q, "advice_1"), FMul(2, Query(q, "advice_0"))))

\* s * (signal_hash_square - signal_hash * signal_hash)
SquareGate(q, sel) ==
    FMul(QuerySelector(sel, "selector"),
         FSub(Query(q, "advice_1"), FMul(Query(q, "advice_0"), Query(q, "advice_0"))))

\* the (cell, instance row) pairs tied by constrain_instance: the call is
\* commented out, no cell is tied to the instance column
SquareInstanceConstraints == {}

\* the cells SquareCircuit::synthesize assigns on row 0
SquareSynthesizeCells(c) ==
    [col \in SquareColumns |->
        IF col = "advice_0" THEN c.signal_hash
        ELSE FMul(c.signal_hash, c.signal_hash)]

SquareVerify(q, sel, inst) ==
    /\ "selector" \in sel => SquareColumns \subseteq DOMAIN q
    /\ SquareGate(q, sel) = 0
    /\ \A e \in SquareInstanceConstraints : Query(q, e[1]) = inst[e[2]]

SignalInputs == {0, 1, 2, 5, 7}

\* the public input the verifier supplies in row 0 of the instance column
PublicInputs(signal_hash) ==
    {FMul(signal_hash, signal_hash), FAdd(FMul(signal_hash, signal_hash), 1), signal_hash}

\* SquareConfigure that takes the two advice columns declared last
SquareConfigureShared(meta) ==
    LET a == meta.num_advice_columns - 2
    IN  [config |-> [advice |-> <<a, a + 1>>, selector |-> meta.num_selectors],
         meta |-> [meta EXCEPT !.num_selectors = @ + 1, !.gates = Append(@, "square")]]

\* SquareCircuit::configure
SquareConfigure(meta) ==
    LET a == meta.num_advice_columns
        i == meta.num_instance_columns
    IN  [config |-> [advice |-> <<a, a + 1>>, selector |-> meta.num_selectors],
         meta |->
            [meta EXCEPT !.num_advice_columns = a + 2,
                         !.num_instance_columns = i + 1,
                         !.num_selectors = @ + 1,
                         !.equality = @ \cup {<<"advice", a>>, <<"advice", a + 1>>,
                                              <<"instance", i>>},
                         !.gates = Append(@, "square")]]

InitSquare ==
    /\ cs = SquareConfigure(NewConstraintSystem).meta
    /\ circuit \in [signal_hash : {FromU64(v) : v \in SignalInputs}]
    /\ cells = NoCells
    /\ selectors = {}
    /\ instance \in {<<x>> : x \in PublicInputs(circuit.signal_hash)}
    /\ pc = "new"
    /\ verdict = "none"

\* SquareCircuit::synthesize: enable the selector on row 0, assign both cells
SynthesizeSquare ==
    /\ pc = "new"
    /\ selectors' = selectors \cup {"selector"}
    /\ cells' = SquareSynthesizeCells(circuit)
    /\ pc' = "synthesized"
    /\ UNCHANGED <<cs, circuit, instance, verdict>>

VerifySquare ==
    /\ pc \in {"synthesized", "tampered"}
    /\ verdict' = IF SquareVerify(cells, selectors, instance) THEN "ok" ELSE "err"
    /\ pc' = "verified"
    /\ UNCHANGED <<cs, circuit, cells, selectors, instance>>

NextSquare == SynthesizeSquare \/ Tamper \/ VerifySquare

SpecSquare == InitSquare /\ [][NextSquare]_vars

(***************************************************************************)
(* Signature gadget (lib.rs) and the composed circuit                      *)
(* (aadhaar_verifier_circuit.rs)                                           *)
(***************************************************************************)
DEFAULT_E == 65537

RECURSIVE PowMod(_, _, _)
PowMod(b, e, n) ==
    IF e = 0 THEN 1 % n
    ELSE LET h == PowMod(b, e \div 2, n)
             sq == (h * h) % n
         IN  IF e % 2 = 1 THEN (sq * b) % n ELSE sq

\* the signed payload: the fields the caller extracts from the message bytes
MsgInputs ==
    {[age_above_18 |-> 1, gender |-> g, pincode |-> 123456, state |-> <<10, 11, 12, 13, 14>>] :
        g \in {1, 2}}

\* the digest of the message, one byte
Sha256Digest(msg) ==
    (msg.age_above_18 + 3 * msg.gender + 5 * (msg.pincode % 251)
        + 7 * (msg.state[1] + msg.state[2] + msg.state[3] + msg.state[4] + msg.state[5]))
    % 256

\* the encoded message of a digest: a one-byte prefix followed by the digest
Pkcs1v15Pad(digest) == 256 + digest

\* private_key (n, d) with n = 61 * 53; DEFAULT_E * d = 1 modulo lcm(60, 52)
RsaKeys == {[n |-> 3233, d |-> 413]}

\* SigningKey::sign
RsaSign(key, msg) == PowMod(Pkcs1v15Pad(Sha256Digest(msg)), key.d, key.n)

\* RSAConfig::verify_pkcs1v15_signature: the signature is a residue of n and
\* sign^e mod n = padded digest
RsaVerify(n, sign, digest) == sign < n /\ PowMod(sign, DEFAULT_E, n) = Pkcs1v15Pad(digest)

\* widths of a digest byte and of a big-integer limb, in bits; the modulus has
\* NumLimbs limbs and the digest DigestLen bytes
ByteBits == 2
LimbBits == 4
NumLimbs == 3
DigestLen == 4

\* the limbs of x, least significant limb first
DecomposeBiguint(x, num_limbs, limb_bits) ==
    [i \in 1..num_limbs |-> (x \div 2^(limb_bits * (i - 1))) % 2^limb_bits]

\* the integer of a vector of limbs, least significant limb first
RECURSIVE Compose(_, _)
Compose(limbs, limb_bits) ==
    IF limbs = <<>> THEN 0 ELSE Head(limbs) + 2^limb_bits * Compose(Tail(limbs), limb_bits)

\* the output bytes of the digest, most significant byte first
OutputBytes(digest) ==
    [i \in 1..DigestLen |-> (digest \div 2^(ByteBits * (DigestLen - i))) % 2^ByteBits]

Reverse(v) == [i \in 1..Len(v) |-> v[Len(v) + 1 - i]]

\* HashedU64s that packs the bytes without reversing them first
HashedU64sNotReversed(output_bytes) ==
    LET limb_bytes == LimbBits \div ByteBits
    IN  [i \in 1..((Len(output_bytes) * ByteBits) \div LimbBits) |->
            Compose(SubSeq(output_bytes, limb_bytes * (i - 1) + 1, limb_bytes * i), ByteBits)]

\* the digest bytes reversed and packed into limbs, byte j of a limb weighted
\* by 1 << (8 * j)
HashedU64s(output_bytes) ==
    LET hashed_bytes == Reverse(output_bytes)
        limb_bytes == LimbBits \div ByteBits
    IN  [i \in 1..((Len(hashed_bytes) * ByteBits) \div LimbBits) |->
            Compose(SubSeq(hashed_bytes, limb_bytes * (i - 1) + 1, limb_bytes * i), ByteBits)]

NColumn == [i \in 1..NumLimbs |-> <<"n_0", "n_1", "n_2">>[i]]
HashedMsgColumn ==
    [i \in 1..DigestLen |-> <<"hashed_msg_0", "hashed_msg_1", "hashed_msg_2", "hashed_msg_3">>[i]]

SignatureColumns ==
    {"sign", "is_valid"} \cup {NColumn[i] : i \in 1..NumLimbs}
        \cup {HashedMsgColumn[i] : i \in 1..DigestLen}

\* the modulus and the digest held by the cells of an assignment
AssignedN(q) == Compose([i \in 1..NumLimbs |-> q[NColumn[i]]], LimbBits)
AssignedDigest(q) ==
    Compose(HashedU64s([i \in 1..DigestLen |-> q[HashedMsgColumn[i]]]), LimbBits)

\* the cells of the circuit for a signature sign of the message c.msg
SignatureCells(c, sign) ==
    LET digest == Sha256Digest(c.msg)
        n == DecomposeBiguint(c.private_key.n, NumLimbs, LimbBits)
        hashed_msg == OutputBytes(digest)
    IN  [col \in SignatureColumns |->
            CASE col = "sign" -> FromU64(sign)
              [] col = "is_valid" ->
                    IF RsaVerify(Compose(n, LimbBits), sign,
                                 Compose(HashedU64s(hashed_msg), LimbBits))
                    THEN 1 ELSE 0
              [] \E i \in 1..NumLimbs : col = NColumn[i] ->
                    FromU64(n[CHOOSE i \in 1..NumLimbs : col = NColumn[i]])
              [] OTHER ->
                    FromU64(hashed_msg[CHOOSE i \in 1..DigestLen : col = HashedMsgColumn[i]])]

\* the cells the signature circuit's synthesize assigns: it signs the message
\* with the private key
SignatureSynthesizeCells(c) == SignatureCells(c, RsaSign(c.private_key, c.msg))

\* limbs and bytes are range checked, and the validity bit is the result of
\* the verification of the assigned cells
SignatureGates(q) ==
    /\ SignatureColumns \subseteq DOMAIN q
    /\ \A i \in 1..NumLimbs : q[NColumn[i]] < 2^LimbBits
    /\ \A i \in 1..DigestLen : q[HashedMsgColumn[i]] < 2^ByteBits
    /\ q["is_valid"] = (IF RsaVerify(AssignedN(q), q["sign"], AssignedDigest(q)) THEN 1 ELSE 0)

\* AssertIsConst that only asks for a bit
AssertIsConstBit(q) == q["is_valid"] \in {0, 1}

\* assert_is_const(ctx, &is_valid, F::one())
AssertIsConst(q) == q["is_valid"] = 1

\* SignatureInstanceConstraints that leaves the last row of each column free
SignatureInstanceConstraintsShort(q, inst) ==
    /\ Len(inst.n_instance) >= NumLimbs
    /\ Len(inst.hash_instance) >= DigestLen
    /\ \A i \in 1..(NumLimbs - 1) : q[NColumn[i]] = inst.n_instance[i]
    /\ \A i \in 1..(DigestLen - 1) : q[HashedMsgColumn[i]] = inst.hash_instance[i]

\* constrain_instance: limb i of the modulus is row i of n_instance, digest
\* byte i is row i of hash_instance
SignatureInstanceConstraints(q, inst) ==
    /\ Len(inst.n_instance) >= NumLimbs
    /\ Len(inst.hash_instance) >= DigestLen
    /\ \A i \in 1..NumLimbs : q[NColumn[i]] = inst.n_instance[i]
    /\ \A i \in 1..DigestLen : q[HashedMsgColumn[i]] = inst.hash_instance[i]

SignatureVerify(q, inst) ==
    /\ SignatureGates(q)
    /\ AssertIsConst(q)
    /\ SignatureInstanceConstraints(q, inst)

\* the public inputs of the tests: decompose_biguint(n) and the digest bytes
SignaturePublicInputs(c) ==
    [n_instance |-> DecomposeBiguint(c.private_key.n, NumLimbs, LimbBits),
     hash_instance |-> OutputBytes(Sha256Digest(c.msg))]

SignatureInputs == [private_key : RsaKeys, msg : MsgInputs]

ComposedTimestampInputs ==
    {[year |-> 2023, month |-> m, day |-> 8, hour |-> 12, minute |-> 34, second |-> 56] :
        m \in {7, 13}}

ComposedSignalInputs == {5, 7}

\* the assignment a and the cells b of another region
Merge(a, b) == [col \in DOMAIN a \cup DOMAIN b |-> IF col \in DOMAIN b THEN b[col] ELSE a[col]]

\* TestRSASignatureWithHashCircuit1::configure: the range and SHA-256 chips
\* configure themselves (their cells are the rows of one advice column of
\* their own), then the two instance columns are declared with equality
\* enabled
SignatureConfigure(meta) ==
    LET i == meta.num_instance_columns
    IN  [config |-> [advice |-> meta.num_advice_columns, n_instance |-> i,
                     hash_instance |-> i + 1],
         meta |->
            [meta EXCEPT !.num_advice_columns = @ + 1,
                         !.num_instance_columns = i + 2,
                         !.equality = @ \cup {<<"instance", i>>, <<"instance", i + 1>>},
                         !.gates = @ \o <<"range", "sha256">>]]

\* AadhaarQRVerifierCircuit::configure (aadhaar_verifier_circuit.rs)
ComposedConfigure(meta) ==
    LET hash_and_sign == SignatureConfigure(meta)
        cond_secrets == IdentityConfigure(hash_and_sign.meta)
        timestamp == TimestampConfigure(cond_secrets.meta)
        signal == SquareConfigure(timestamp.meta)
    IN  [config |-> <<hash_and_sign.config, cond_secrets.config, timestamp.config,
                      signal.config>>,
         meta |-> signal.meta]

\* the four sub-circuits of AadhaarQRVerifierCircuit and the public inputs of
\* the tests: the modulus, the digest and the square of the signal
InitComposed ==
    /\ cs = ComposedConfigure(NewConstraintSystem).meta
    /\ circuit \in [hash_and_sign : SignatureInputs, cond_secrets : IdentityInputs,
                    timestamp : ComposedTimestampInputs,
                    signal : [signal_hash : ComposedSignalInputs]]
    /\ cells = NoCells
    /\ selectors = {}
    /\ instance = [n_instance |-> SignaturePublicInputs(circuit.hash_and_sign).n_instance,
                   hash_instance |-> SignaturePublicInputs(circuit.hash_and_sign).hash_instance,
                   signal |-> <<FMul(circuit.signal.signal_hash, circuit.signal.signal_hash)>>]
    /\ pc = "new"
    /\ verdict = "none"

\* self.hash_and_sign.synthesize(cs, hash_and_sign_config)?
ComposedHashAndSign ==
    /\ pc = "new"
    /\ cells' = Merge(cells, SignatureSynthesizeCells(circuit.hash_and_sign))
    /\ pc' = "hash_and_sign"
    /\ UNCHANGED <<cs, circuit, selectors, instance, verdict>>

\* self.cond_secrets.synthesize(cs, cond_secrets_config)?
ComposedCondSecrets ==
    /\ pc = "hash_and_sign"
    /\ IF IdentitySynthesizePanics(circuit.cond_secrets)
       THEN /\ pc' = "panic"
            /\ UNCHANGED <<cells, selectors>>
       ELSE /\ pc' = "cond_secrets"
            /\ selectors' = selectors \cup {"s"}
            /\ cells' = Merge(cells, IdentitySynthesizeCells(circuit.cond_secrets))
    /\ UNCHANGED <<cs, circuit, instance, verdict>>

\* self.timestamp.synthesize(cs, timestamp_config)?
ComposedTimestamp ==
    /\ pc = "cond_secrets"
    /\ cells' = Merge(cells, TimestampSynthesizeCells(circuit.timestamp))
    /\ cs' = TimestampSynthesizeGates(cs)
    /\ pc' = "timestamp"
    /\ UNCHANGED <<circuit, selectors, instance, verdict>>

\* self.signal.synthesize(cs, signal_config)?; Ok(())
ComposedSignal ==
    /\ pc = "timestamp"
    /\ selectors' = selectors \cup {"selector"}
    /\ cells' = Merge(cells, SquareSynthesizeCells(circuit.signal))
    /\ pc' = "synthesized"
    /\ UNCHANGED <<cs, circuit, instance, verdict>>

\* the mock prover's verdict on each sub-circuit
VerifyComposed ==
    /\ pc = "synthesized"
    /\ \E max_years \in MaxYearsChoices :
          verdict' =
            [hash_and_sign |-> IF SignatureVerify(cells, instance) THEN "ok" ELSE "err",
             cond_secrets |-> IF IdentityVerify(cells, selectors) THEN "ok" ELSE "err",
             timestamp |-> IF TimestampVerify(cells, max_years) THEN "ok" ELSE "err",
             signal |-> IF SquareVerify(cells, selectors, instance.signal) THEN "ok" ELSE "err"]
    /\ pc' = "verified"
    /\ UNCHANGED <<cs, circuit, cells, selectors, instance>>

\* the sub-circuits in the order synthesize runs them, and the position
\* synthesize is at before each of them
ComposedOrder == <<"hash_and_sign", "cond_secrets", "timestamp", "signal">>
ComposedBefore == <<"new", "hash_and_sign", "cond_secrets", "timestamp">>

\* ComposedErr that drops the error and goes on with the next sub-circuit
ComposedErrDropped ==
    /\ \E k \in 1..3 :
          /\ pc = ComposedBefore[k]
          /\ pc' = ComposedBefore[k + 1]
    /\ UNCHANGED <<cs, circuit, cells, selectors, instance, verdict>>

\* a sub-circuit's synthesize returns Err, and the ? operator returns it
ComposedErr ==
    /\ \E k \in 1..4 :
          /\ pc = ComposedBefore[k]
          /\ verdict' = [failed |-> ComposedOrder[k]]
    /\ pc' = "err"
    /\ UNCHANGED <<cs, circuit, cells, selectors, instance>>

NextComposed ==
    \/ ComposedHashAndSign
    \/ ComposedCondSecrets
    \/ ComposedTimestamp
    \/ ComposedSignal
    \/ ComposedErr
    \/ VerifyComposed

SpecComposed == InitComposed /\ [][NextComposed]_vars

(***************************************************************************)
(* NullifierCircuit (nullifier.rs)                                         *)
(*                                                                         *)
(* Two circuits are synthesized side by side, so that the nullifiers of    *)
(* two witnesses can be compared.  The sponge hash is collision free: a    *)
(* digest is the record of everything the sponge absorbed.                 *)
(***************************************************************************)
PHOTO_SIZE == 32

\* the state of a sponge that has absorbed nothing
SpongeInit == <<>>

\* absorb the elements of xs, in order
RECURSIVE Absorb(_, _)
Absorb(st, xs) == IF xs = <<>> THEN st ELSE Absorb(Append(st, Head(xs)), Tail(xs))

\* squeeze one digest
Squeeze(st) == [poseidon |-> st]

\* the rust range slice[lo..hi] of a vector (zero based, hi excluded)
Slice(v, lo, hi) == SubSeq(v, lo + 1, hi)

\* HashInput whose second window is the whole photo
HashInputWholePhoto(c, q, k) ==
    CASE k = 1 -> Slice(c.photo, 0, 16)
      [] k = 2 -> Slice(c.photo, 0, 32)
      [] k = 3 -> <<c.nullifier_seed, q["first16_hash"], q["last16_hash"]>>

\* HashInput whose second window stops one element early
HashInputShortWindow(c, q, k) ==
    CASE k = 1 -> Slice(c.photo, 0, 16)
      [] k = 2 -> Slice(c.photo, 16, 31)
      [] k = 3 -> <<c.nullifier_seed, q["first16_hash"], q["last16_hash"]>>

\* HashInput whose final hash takes the two digests in the other order
HashInputSwapped(c, q, k) ==
    CASE k = 1 -> Slice(c.photo, 0, 16)
      [] k = 2 -> Slice(c.photo, 16, 32)
      [] k = 3 -> <<c.nullifier_seed, q["last16_hash"], q["first16_hash"]>>

\* the input of the k-th hash of NullifierCircuit::synthesize
HashInput(c, q, k) ==
    CASE k = 1 -> Slice(c.photo, 0, 16)
      [] k = 2 -> Slice(c.photo, 16, 32)
      [] k = 3 -> <<c.nullifier_seed, q["first16_hash"], q["last16_hash"]>>

\* the value the k-th digest is bound to
HashOutput == <<"first16_hash", "last16_hash", "output">>

\* the photo of the test, and the photos that differ from it in one element
PhotoInputs ==
    {[i \in 1..PHOTO_SIZE |-> IF i = j THEN 2 ELSE 1] : j \in {0, 1, 16, 17, 32}}

SeedInputs == {12345, 54321}

NullifierInputs == [nullifier_seed : SeedInputs, photo : PhotoInputs]

\* the cell q with the value x
With(q, col, x) == [c \in DOMAIN q \cup {col} |-> IF c = col THEN x ELSE q[c]]

\* the assignment q without the cell col
Without(q, col) == [c \in DOMAIN q \ {col} |-> q[c]]

\* NullifierCircuit::configure: the configuration of the Poseidon chip
NullifierConfigure(meta) ==
    [config |-> [output |-> meta.num_advice_columns],
     meta |-> [meta EXCEPT !.num_advice_columns = @ + 1, !.gates = Append(@, "poseidon")]]

InitNullifier ==
    /\ cs = NullifierConfigure(NewConstraintSystem).meta
    /\ circuit \in [Runs -> NullifierInputs]
    /\ cells = [r \in Runs |-> NoCells]
    /\ selectors = {}
    /\ instance = <<>>
    /\ pc = [hash |-> 1, step |-> "initialize"]
    /\ verdict = "none"

\* a hash starts from a fresh sponge state
SpongeInitialize ==
    /\ pc.hash \in 1..3 /\ pc.step = "initialize"
    /\ cells' = [r \in Runs |-> With(cells[r], "sponge", SpongeInit)]
    /\ pc' = [pc EXCEPT !.step = "absorb"]
    /\ UNCHANGED <<cs, circuit, selectors, instance, verdict>>

SpongeAbsorb ==
    /\ pc.hash \in 1..3 /\ pc.step = "absorb"
    /\ cells' = [r \in Runs |->
                    With(cells[r], "sponge",
                         Absorb(cells[r]["sponge"], HashInput(circuit[r], cells[r], pc.hash)))]
    /\ pc' = [pc EXCEPT !.step = "squeeze"]
    /\ UNCHANGED <<cs, circuit, selectors, instance, verdict>>

SpongeSqueeze ==
    /\ pc.hash \in 1..3 /\ pc.step = "squeeze"
    /\ cells' = [r \in Runs |->
                    With(cells[r], HashOutput[pc.hash], Squeeze(cells[r]["sponge"]))]
    /\ pc' = [pc EXCEPT !.step = "discard"]
    /\ UNCHANGED <<cs, circuit, selectors, instance, verdict>>

\* the sponge state is dropped; after the third hash synthesize returns Ok
SpongeDiscard ==
    /\ pc.hash \in 1..3 /\ pc.step = "discard"
    /\ cells' = [r \in Runs |-> Without(cells[r], "sponge")]
    /\ pc' = IF pc.hash = 3 THEN [hash |-> 4, step |-> "done"]
             ELSE [hash |-> pc.hash + 1, step |-> "initialize"]
    /\ UNCHANGED <<cs, circuit, selectors, instance, verdict>>

NextNullifier == SpongeInitialize \/ SpongeAbsorb \/ SpongeSqueeze \/ SpongeDiscard

SpecNullifier == InitNullifier /\ [][NextNullifier]_vars

(***************************************************************************)
(* TestRSASignatureWithHashCircuit1 on its own (lib.rs), with public       *)
(* inputs that may differ from the honest ones in one row, and a prover    *)
(* that may assign another signature                                       *)
(***************************************************************************)
\* the vector v with row i replaced by another value below base
OneRowChanged(v, base) ==
    {[v EXCEPT ![i] = (v[i] + 1) % base] : i \in DOMAIN v}

\* the honest public inputs, and those that differ in one limb or one byte
SignatureInstanceInputs(c) ==
    LET honest == SignaturePublicInputs(c)
    IN  {honest}
        \cup {[honest EXCEPT !.n_instance = v] : v \in OneRowChanged(honest.n_instance, 2^LimbBits)}
        \cup {[honest EXCEPT !.hash_instance = v] :
                 v \in OneRowChanged(honest.hash_instance, 2^ByteBits)}

\* signatures a prover may assign instead of the one synthesize computes: a
\* valid signature of another message, and residues next to the honest one
ForgedSignatures(c) ==
    ({RsaSign(c.private_key, m) : m \in MsgInputs}
        \cup {(RsaSign(c.private_key, c.msg) + 1) % c.private_key.n, 1})
    \ {RsaSign(c.private_key, c.msg)}

InitSignature ==
    /\ cs = SignatureConfigure(NewConstraintSystem).meta
    /\ circuit \in SignatureInputs
    /\ cells = NoCells
    /\ selectors = {}
    /\ instance \in SignatureInstanceInputs(circuit)
    /\ pc = "new"
    /\ verdict = "none"

SynthesizeSignature ==
    /\ pc = "new"
    /\ cells' = SignatureSynthesizeCells(circuit)
    /\ pc' = "synthesized"
    /\ UNCHANGED <<cs, circuit, selectors, instance, verdict>>

\* the prover assigns another signature; the cells computed from it follow
ForgeSignature ==
    /\ pc = "synthesized"
    /\ \E sign \in ForgedSignatures(circuit) : cells' = SignatureCells(circuit, sign)
    /\ pc' = "forged"
    /\ UNCHANGED <<cs, circuit, selectors, instance, verdict>>

VerifySignature ==
    /\ pc \in {"synthesized", "tampered", "forged"}
    /\ verdict' = IF SignatureVerify(cells, instance) THEN "ok" ELSE "err"
    /\ pc' = "verified"
    /\ UNCHANGED <<cs, circuit, cells, selectors, instance>>

NextSignature == SynthesizeSignature \/ Tamper \/ ForgeSignature \/ VerifySignature

SpecSignature == InitSignature /\ [][NextSignature]_vars

(***************************************************************************)
(* AadhaarQRVerifierCircuit of qr_data_extractor.rs                        *)
(*                                                                         *)
(* A cell is named by its column and its row.  The public inputs are a     *)
(* vector of instance columns, each a vector of rows.                      *)
(***************************************************************************)
NoneFp == [some |-> FALSE, v |-> 0]

\* the instance columns, in the order configure declares them
QrInstanceColumns ==
    <<"nullifier_seed", "signal_hash", "pubkey_hash", "nullifier", "timestamp",
      "age_above18", "gender", "pin_code", "state">>

QrVectorFields == {"qr_data_padded", "delimiter_indices", "signature", "pub_key"}

QrScalarFields ==
    {"qr_data_padded_length", "reveal_age_above18", "reveal_gender", "reveal_pin_code",
     "reveal_state"}

\* the cells synthesize assigns: every witness, a missing one as F::from(1),
\* and the value it writes for signal_hash
QrSynthesizeCells(c) ==
    [cell \in {<<f, i>> : f \in QrVectorFields, i \in 1..3}
              \cup {<<f, 1>> : f \in QrScalarFields \cup {"signal_hash"}} |->
        IF cell[1] \in QrVectorFields
        THEN IF cell[2] <= Len(c[cell[1]]) THEN UnwrapOr(c[cell[1]][cell[2]], 1) ELSE 0
        ELSE UnwrapOr(c[cell[1]], 1)]

\* the vector fields have at most three elements; only the assigned rows exist
QrAssignedCells(c) ==
    LET q == QrSynthesizeCells(c)
    IN  [cell \in {x \in DOMAIN q : x[1] \in QrVectorFields => x[2] <= Len(c[x[1]])} |-> q[cell]]

\* row 0 of instance column i; rows the caller does not supply are zero
InstanceRow(inst, i) == IF i <= Len(inst) /\ Len(inst[i]) >= 1 THEN inst[i][1] ELSE 0

\* assign_instance is not an operation of a region: it either ties the
\* written value to the instance column or has no effect
AssignInstanceReadings == {"bound", "ignored"}

\* the prover is given one vector per declared instance column; configure
\* declares no gate
QrVerify(q, inst, reading) ==
    /\ Len(inst) = Len(QrInstanceColumns)
    /\ reading = "bound" => InstanceRow(inst, 2) = q[<<"signal_hash", 1>>]

QrWitnessInputs == {Some(1), NoneFp}

QrInputs ==
    [qr_data_padded : {<<Some(1), Some(2), Some(3)>>, <<Some(1), NoneFp, Some(3)>>},
     qr_data_padded_length : {Some(3)},
     delimiter_indices : {<<Some(1), Some(2), Some(3)>>},
     signature : {<<Some(1), Some(2)>>},
     pub_key : {<<Some(1), Some(2)>>},
     reveal_age_above18 : {Some(1)},
     reveal_gender : QrWitnessInputs,
     reveal_pin_code : {Some(1)},
     reveal_state : {Some(1)},
     nullifier_seed : {Some(1), Some(7), NoneFp},
     signal_hash : {Some(1), Some(2), NoneFp}]

\* the public inputs of the test (one vector of two entries), one vector of
\* nine entries, and one vector per instance column
QrPublicInputs ==
    {<<<<1, 1>>>>, <<<<1, 4, 0, 0, 0, 1, 1, 0, 0>>>>}
    \cup {<<<<seed>>, <<sig>>, <<0>>, <<0>>, <<0>>, <<1>>, <<gender>>, <<0>>, <<0>>>> :
             seed \in {1, 7}, sig \in {1, 2, 4}, gender \in {0, 1}}

\* AadhaarQRVerifierCircuit::configure (qr_data_extractor.rs): nine advice
\* columns, nine instance columns, no gate
QrConfigure(meta) ==
    LET a == meta.num_advice_columns
        i == meta.num_instance_columns
    IN  [config |->
            [qr_data_padded |-> a, qr_data_padded_length |-> a + 1, delimiter_indices |-> a + 2,
             signature |-> a + 3, pub_key |-> a + 4, reveal_age_above18 |-> a + 5,
             reveal_gender |-> a + 6, reveal_pin_code |-> a + 7, reveal_state |-> a + 8,
             instance |-> [k \in 1..Len(QrInstanceColumns) |-> i + k - 1]],
         meta |->
            [meta EXCEPT !.num_advice_columns = a + 9,
                         !.num_instance_columns = i + Len(QrInstanceColumns)]]

InitQr ==
    /\ cs = QrConfigure(NewConstraintSystem).meta
    /\ circuit \in QrInputs
    /\ cells = NoCells
    /\ selectors = {}
    /\ instance \in QrPublicInputs
    /\ pc = "new"
    /\ verdict = "none"

SynthesizeQr ==
    /\ pc = "new"
    /\ cells' = QrAssignedCells(circuit)
    /\ pc' = "synthesized"
    /\ UNCHANGED <<cs, circuit, selectors, instance, verdict>>

VerifyQr ==
    /\ pc = "synthesized"
    /\ \E reading \in AssignInstanceReadings :
          verdict' = IF QrVerify(cells, instance, reading) THEN "ok" ELSE "err"
    /\ pc' = "verified"
    /\ UNCHANGED <<cs, circuit, cells, selectors, instance>>

NextQr == SynthesizeQr \/ VerifyQr

SpecQr == InitQr /\ [][NextQr]_vars

(***************************************************************************)
(* The compile phase on its own: configure runs for two circuits of the    *)
(* same kind, each from a new constraint system; cs holds what configure   *)
(* returns and the constraint system it leaves                             *)
(***************************************************************************)
ConfigureOf(gadget, meta) ==
    CASE gadget = "IdentityCircuit" -> IdentityConfigure(meta)
      [] gadget = "SquareCircuit" -> SquareConfigure(meta)
      [] gadget = "AadhaarQRVerifierCircuit" -> ComposedConfigure(meta)

\* circuits that differ in their witness values
ConfigureWitnesses(gadget) ==
    CASE gadget = "IdentityCircuit" ->
            {c \in IdentityInputs :
                \A f \in {"reveal_age_above_18", "reveal_gender", "reveal_pincode", "reveal_state"} :
                    c[f] = Some(TRUE)}
      [] gadget = "SquareCircuit" -> [signal_hash : {FromU64(v) : v \in SignalInputs}]
      [] gadget = "AadhaarQRVerifierCircuit" ->
            [hash_and_sign : SignatureInputs, timestamp : ComposedTimestampInputs,
             signal : [signal_hash : ComposedSignalInputs]]

ConfigureInputs ==
    {[gadget |-> g, instances |-> <<a, b>>] :
        g \in {"IdentityCircuit"}, a \in ConfigureWitnesses("IdentityCircuit"),
        b \in ConfigureWitnesses("IdentityCircuit")}
    \cup {[gadget |-> g, instances |-> <<a, b>>] :
        g \in {"SquareCircuit"}, a \in ConfigureWitnesses("SquareCircuit"),
        b \in ConfigureWitnesses("SquareCircuit")}
    \cup {[gadget |-> g, instances |-> <<a, b>>] :
        g \in {"AadhaarQRVerifierCircuit"}, a \in ConfigureWitnesses("AadhaarQRVerifierCircuit"),
        b \in ConfigureWitnesses("AadhaarQRVerifierCircuit")}

InitConfigure ==
    /\ cs = [r \in Runs |-> [config |-> <<>>, meta |-> NewConstraintSystem]]
    /\ circuit \in ConfigureInputs
    /\ cells = NoCells
    /\ selectors = {}
    /\ instance = <<>>
    /\ pc = [r \in Runs |-> "new"]
    /\ verdict = "none"

Configure ==
    /\ \E r \in Runs :
          /\ pc[r] = "new"
          /\ cs' = [cs EXCEPT ![r] = ConfigureOf(circuit.gadget, cs[r].meta)]
          /\ pc' = [pc EXCEPT ![r] = "configured"]
    /\ UNCHANGED <<circuit, cells, selectors, instance, verdict>>

NextConfigure == Configure

SpecConfigure == InitConfigure /\ [][NextConfigure]_vars

(***************************************************************************)
(* The four sub-circuits synthesized in any order.  A cell is named by the *)
(* number of its column in the composed constraint system and its row, a   *)
(* selector by its number.                                                 *)
(***************************************************************************)
ComposedConfig == ComposedConfigure(NewConstraintSystem).config

\* the rows of the chips' advice column that hold the cells of the signature
\* circuit
SignatureRow ==
    <<"sign", "is_valid", "n_0", "n_1", "n_2",
      "hashed_msg_0", "hashed_msg_1", "hashed_msg_2", "hashed_msg_3">>

\* the (column, row) of a named cell of a sub-circuit under the configuration
CellOf(config, gadget, name) ==
    CASE gadget = "hash_and_sign" ->
            <<config[1].advice, (CHOOSE r \in DOMAIN SignatureRow : SignatureRow[r] = name) - 1>>
      [] gadget = "cond_secrets" ->
            IF \E i \in 1..StateLen : StateColumn[i] = name
            THEN <<config[2].state[CHOOSE i \in 1..StateLen : StateColumn[i] = name], 0>>
            ELSE IF \E i \in 1..StateLen : QrDataStateColumn[i] = name
            THEN <<config[2].qr_data_state[CHOOSE i \in 1..StateLen : QrDataStateColumn[i] = name], 0>>
            ELSE <<config[2][name], 0>>
      [] gadget = "timestamp" -> <<config[3][name], 0>>
      [] gadget = "signal" -> <<config[4].advice[IF name = "advice_0" THEN 1 ELSE 2], 0>>

\* the named cells each sub-circuit's synthesize assigns
GadgetSynthesizeCells(c, gadget) ==
    CASE gadget = "hash_and_sign" -> SignatureSynthesizeCells(c.hash_and_sign)
      [] gadget = "cond_secrets" -> IdentitySynthesizeCells(c.cond_secrets)
      [] gadget = "timestamp" -> TimestampSynthesizeCells(c.timestamp)
      [] gadget = "signal" -> SquareSynthesizeCells(c.signal)

\* the cells of a sub-circuit's synthesize, placed by the configuration
PlacedCells(config, c, gadget) ==
    LET q == GadgetSynthesizeCells(c, gadget)
    IN  [cell \in {CellOf(config, gadget, name) : name \in DOMAIN q} |->
            q[CHOOSE name \in DOMAIN q : CellOf(config, gadget, name) = cell]]

\* the selector each sub-circuit's synthesize enables
PlacedSelectors(config, gadget) ==
    CASE gadget = "cond_secrets" -> {config[2].s}
      [] gadget = "signal" -> {config[4].selector}
      [] OTHER -> {}

\* what a sub-circuit's gates read: its named cells, looked up through the
\* configuration
QueriedCells(config, q, gadget, names) ==
    [name \in {n \in names : CellOf(config, gadget, n) \in DOMAIN q} |->
        q[CellOf(config, gadget, name)]]

\* the verdict on each sub-circuit for an assignment
PlacedVerdict(config, q, sel, inst, max_years) ==
    [hash_and_sign |->
        IF SignatureVerify(QueriedCells(config, q, "hash_and_sign", SignatureColumns), inst)
        THEN "ok" ELSE "err",
     cond_secrets |->
        IF IdentityVerify(QueriedCells(config, q, "cond_secrets", IdentityColumns),
                          IF config[2].s \in sel THEN {"s"} ELSE {})
        THEN "ok" ELSE "err",
     timestamp |->
        IF TimestampVerify(QueriedCells(config, q, "timestamp", TimestampColumns), max_years)
        THEN "ok" ELSE "err",
     signal |->
        IF SquareVerify(QueriedCells(config, q, "signal", SquareColumns),
                        IF config[4].selector \in sel THEN {"selector"} ELSE {}, inst.signal)
        THEN "ok" ELSE "err"]

AnyOrderInputs ==
    [hash_and_sign : SignatureInputs,
     cond_secrets : {c \in IdentityInputs :
                        /\ c.reveal_pincode = Some(TRUE) /\ c.reveal_state = Some(TRUE)
                        /\ c.reveal_gender = Some(TRUE) /\ c.gender = Some(1)},
     timestamp : ComposedTimestampInputs,
     signal : [signal_hash : ComposedSignalInputs]]

InitAnyOrder ==
    /\ cs = ComposedConfigure(NewConstraintSystem).meta
    /\ circuit \in AnyOrderInputs
    /\ cells = NoCells
    /\ selectors = {}
    /\ instance = [n_instance |-> SignaturePublicInputs(circuit.hash_and_sign).n_instance,
                   hash_instance |-> SignaturePublicInputs(circuit.hash_and_sign).hash_instance,
                   signal |-> <<FMul(circuit.signal.signal_hash, circuit.signal.signal_hash)>>]
    /\ pc = {}
    /\ verdict = "none"

\* one sub-circuit that has not run yet is synthesized
SynthesizeAnyOrder ==
    /\ "verified" \notin pc
    /\ \E gadget \in {ComposedOrder[k] : k \in 1..4} \ pc :
          /\ cells' = Merge(cells, PlacedCells(ComposedConfig, circuit, gadget))
          /\ selectors' = selectors \cup PlacedSelectors(ComposedConfig, gadget)
          /\ cs' = IF gadget = "timestamp" THEN TimestampSynthesizeGates(cs) ELSE cs
          /\ pc' = pc \cup {gadget}
    /\ UNCHANGED <<circuit, instance, verdict>>

VerifyAnyOrder ==
    /\ pc = {ComposedOrder[k] : k \in 1..4}
    /\ \E max_years \in MaxYearsChoices :
          verdict' = PlacedVerdict(ComposedConfig, cells, selectors, instance, max_years)
    /\ pc' = pc \cup {"verified"}
    /\ UNCHANGED <<cs, circuit, cells, selectors, instance>>

NextAnyOrder == SynthesizeAnyOrder \/ VerifyAnyOrder

SpecAnyOrder == InitAnyOrder /\ [][NextAnyOrder]_vars

(***************************************************************************)
(* The witness phase call by call: synthesize is the sequence of its       *)
(* assign calls, pc counts the calls that have returned                    *)
(***************************************************************************)
\* the scalar cells of IdentityCircuit in the order synthesize assigns them
IdentityAssignOrder ==
    <<"reveal_age_above_18", "qr_data_age_above_18", "age_above_18",
      "reveal_gender", "gender", "qr_data_gender",
      "reveal_pincode", "pincode", "qr_data_pincode", "reveal_state">>

\* IdentityAssignCalls whose second loop writes the state columns again
IdentityAssignCallsSameColumn(c) ==
    LET q == IdentitySynthesizeCells(c)
    IN  [i \in 1..Len(IdentityAssignOrder) |-> <<IdentityAssignOrder[i], q[IdentityAssignOrder[i]]>>]
        \o [i \in 1..Len(UnwrapOr(c.state, <<>>)) |-> <<StateColumn[i], q[StateColumn[i]]>>]
        \o [i \in 1..Len(UnwrapOr(c.qr_data_state, <<>>)) |->
                <<StateColumn[i], q[QrDataStateColumn[i]]>>]

\* the assign_advice calls of IdentityCircuit::synthesize: (cell, value)
IdentityAssignCalls(c) ==
    LET q == IdentitySynthesizeCells(c)
    IN  [i \in 1..Len(IdentityAssignOrder) |-> <<IdentityAssignOrder[i], q[IdentityAssignOrder[i]]>>]
        \o [i \in 1..Len(UnwrapOr(c.state, <<>>)) |-> <<StateColumn[i], q[StateColumn[i]]>>]
        \o [i \in 1..Len(UnwrapOr(c.qr_data_state, <<>>)) |->
                <<QrDataStateColumn[i], q[QrDataStateColumn[i]]>>]

\* the assign_advice calls of SquareCircuit::synthesize
SquareAssignCalls(c) ==
    <<<<"advice_0", c.signal_hash>>, <<"advice_1", FMul(c.signal_hash, c.signal_hash)>>>>

\* the rows of one vector field of the QR verifier circuit
QrVectorCalls(c, f) == [i \in 1..Len(c[f]) |-> <<<<f, i>>, UnwrapOr(c[f][i], 1)>>]

\* the assign calls of AadhaarQRVerifierCircuit::synthesize (qr_data_extractor.rs),
\* the two public-instance cells last
QrAssignCalls(c) ==
    QrVectorCalls(c, "qr_data_padded")
    \o <<<<<<"qr_data_padded_length", 1>>, UnwrapOr(c.qr_data_padded_length, 1)>>>>
    \o QrVectorCalls(c, "delimiter_indices")
    \o QrVectorCalls(c, "signature")
    \o QrVectorCalls(c, "pub_key")
    \o <<<<<<"reveal_age_above18", 1>>, UnwrapOr(c.reveal_age_above18, 1)>>,
         <<<<"reveal_gender", 1>>, UnwrapOr(c.reveal_gender, 1)>>,
         <<<<"reveal_pin_code", 1>>, UnwrapOr(c.reveal_pin_code, 1)>>,
         <<<<"reveal_state", 1>>, UnwrapOr(c.reveal_state, 1)>>,
         <<<<"nullifier_seed", 1>>, UnwrapOr(c.nullifier_seed, 1)>>,
         <<<<"signal_hash", 1>>, UnwrapOr(c.signal_hash, 1)>>>>

AssignCalls(c) ==
    CASE c.gadget = "IdentityCircuit" -> IdentityAssignCalls(c.witness)
      [] c.gadget = "SquareCircuit" -> SquareAssignCalls(c.witness)
      [] c.gadget = "qr_data_extractor::AadhaarQRVerifierCircuit" -> QrAssignCalls(c.witness)

AssignInputs ==
    {[gadget |-> "IdentityCircuit", witness |-> w] : w \in ConfigureWitnesses("IdentityCircuit")}
    \cup {[gadget |-> "SquareCircuit", witness |-> w] : w \in ConfigureWitnesses("SquareCircuit")}
    \cup {[gadget |-> "qr_data_extractor::AadhaarQRVerifierCircuit", witness |-> w] : w \in QrInputs}

\* the constraint system of the circuit that is synthesized
AssignConfigure(gadget) ==
    CASE gadget = "IdentityCircuit" -> IdentityConfigure(NewConstraintSystem)
      [] gadget = "SquareCircuit" -> SquareConfigure(NewConstraintSystem)
      [] gadget = "qr_data_extractor::AadhaarQRVerifierCircuit" -> QrConfigure(NewConstraintSystem)

InitAssign ==
    /\ circuit \in AssignInputs
    /\ cs = AssignConfigure(circuit.gadget).meta
    /\ cells = NoCells
    /\ selectors = {}
    /\ instance = <<>>
    /\ pc = 0
    /\ verdict = "none"

\* the next assign call of synthesize
AssignNext ==
    /\ pc < Len(AssignCalls(circuit))
    /\ cells' = With(cells, AssignCalls(circuit)[pc + 1][1], AssignCalls(circuit)[pc + 1][2])
    /\ pc' = pc + 1
    /\ UNCHANGED <<cs, circuit, selectors, instance, verdict>>

\* synthesize returns Ok(())
AssignReturn ==
    /\ pc = Len(AssignCalls(circuit))
    /\ pc' = pc + 1
    /\ verdict' = "Ok"
    /\ UNCHANGED <<cs, circuit, cells, selectors, instance>>

NextAssign == AssignNext \/ AssignReturn

SpecAssign == InitAssign /\ [][NextAssign]_vars

(***************************************************************************)
(* The gate calculate_out on its own: a prover assigns total_days_passed   *)
(* and out next to the cells synthesize assigns                            *)
(***************************************************************************)
DaysPassedInputs == {0, 1, 365, 19546}

\* values a prover may assign to out: the seconds of the timestamp, the
\* seconds of the time of day alone, and their neighbours
OutInputs(c, days) ==
    LET secs == c.hour * 3600 + c.minute * 60 + c.second
    IN  {FromU64(days * 86400 + secs), FromU64(days * 86400 + secs + 1), FromU64(secs), 0}

CalculateOutInputs ==
    {c \in TimestampInputs : c.year = 2023 /\ c.month = 7 /\ c.day = 8}

CalculateOutVerify(q) ==
    \A r \in DOMAIN TimestampRows(q) :
        \A g \in DOMAIN CalculateOut(TimestampRows(q)[r]) :
            PairHolds(CalculateOut(TimestampRows(q)[r])[g])

InitCalculateOut ==
    /\ cs = TimestampConfigure(NewConstraintSystem).meta
    /\ circuit \in CalculateOutInputs
    /\ cells = NoCells
    /\ selectors = {}
    /\ instance = <<>>
    /\ pc = "new"
    /\ verdict = "none"

\* the cells of synthesize together with the two cells it leaves to the prover
AssignCalculateOut ==
    /\ pc = "synthesized"
    /\ \E days \in DaysPassedInputs :
          \E out \in OutInputs(circuit, days) :
             cells' = Merge(cells, [col \in {"total_days_passed", "out"} |->
                                        IF col = "out" THEN out ELSE FromU64(days)])
    /\ pc' = "assigned"
    /\ UNCHANGED <<cs, circuit, selectors, instance, verdict>>

VerifyCalculateOut ==
    /\ pc \in {"synthesized", "assigned"}
    /\ verdict' = IF CalculateOutVerify(cells) THEN "ok" ELSE "err"
    /\ pc' = "verified"
    /\ UNCHANGED <<cs, circuit, cells, selectors, instance>>

NextCalculateOut == SynthesizeTimestamp \/ AssignCalculateOut \/ VerifyCalculateOut

SpecCalculateOut == InitCalculateOut /\ [][NextCalculateOut]_vars

(***************************************************************************)
(* calculate_days_passed (timestamp.rs), applied to the dates of 1970..2099 *)
(***************************************************************************)
days_till_previous_month == <<0, 31, 59, 90, 120, 151, 181, 212, 243, 273, 304, 334>>

\* what the leap-year loop pushes for the indices i..n-1
RECURSIVE LeapDaysPushed(_, _, _, _)
LeapDaysPushed(year_offset, month, i, n) ==
    IF i >= n THEN 0
    ELSE (IF year_offset >= (i * 4) + 2 THEN 1 ELSE 0)
         + (IF year_offset = (i * 4) + 2 /\ month > 2 THEN 1 ELSE 0)
         + LeapDaysPushed(year_offset, month, i + 1, n)

CalculateDaysPassed(year, month, day) ==
    LET year_offset == year - 1970
        max_years == year_offset
        max_leap_years == max_years \div 4
    IN  year_offset * 365 + (day - 1) + days_till_previous_month[month]
        + LeapDaysPushed(year_offset, month, 0, max_leap_years)

\* the dates the function is applied to: the first, the 28th and the last
\* day of every month of every year
DaysPassedYears == 1970..2099

IsLeap(y) == y % 4 = 0 /\ (y % 100 # 0 \/ y % 400 = 0)

DaysInMonth(y, m) ==
    IF m = 2 THEN (IF IsLeap(y) THEN 29 ELSE 28)
    ELSE IF m \in {4, 6, 9, 11} THEN 30 ELSE 31

DateInputs ==
    {[year |-> y, month |-> m, day |-> d] :
        y \in DaysPassedYears, m \in 1..12, d \in {1, 28, 29, 30, 31}}

InitDaysPassed ==
    /\ cs = TimestampConfigure(NewConstraintSystem).meta
    /\ circuit \in {c \in DateInputs : c.day <= DaysInMonth(c.year, c.month)}
    /\ cells = NoCells
    /\ selectors = {}
    /\ instance = <<>>
    /\ pc = "new"
    /\ verdict = "none"

\* calculate_days_passed(cs, config, year, month, day)
AssignDaysPassed ==
    /\ pc = "new"
    /\ cells' = [col \in {"total_days_passed"} |->
                    FromU64(CalculateDaysPassed(circuit.year, circuit.month, circuit.day))]
    /\ pc' = "assigned"
    /\ UNCHANGED <<cs, circuit, selectors, instance, verdict>>

NextDaysPassed == AssignDaysPassed

SpecDaysPassed == InitDaysPassed /\ [][NextDaysPassed]_vars

(***************************************************************************)
(* The caller of the signal circuit (lib.rs, test_aadhaar_qr_verifier_     *)
(* circuit): signal_val is a u64, the public input is the u64 product      *)
(* signal_val * signal_val.  The width of u64 is scaled down with the      *)
(* field: 2^U64Bits < FieldModulus as 2^64 is below the modulus of Fr      *)
(***************************************************************************)
U64Bits == 28

\* the u64 product over a word one bit narrower
MulU64Narrow(a, b) ==
    [overflow |-> a * b >= 2 ^ (U64Bits - 1), v |-> (a * b) % 2 ^ (U64Bits - 1)]

\* a * b on u64: the product overflows when it does not fit the word; a
\* build with overflow checks panics, a build without them keeps the low bits
MulU64(a, b) ==
    [overflow |-> a * b >= 2 ^ U64Bits, v |-> (a * b) % 2 ^ U64Bits]

\* "4294967295" = 2^32 - 1, the largest value of half the width of u64
MaxSignal == 2 ^ (U64Bits \div 2) - 1

\* the signals the caller parses: every value up to MaxSignal and a few above
CallerSignals == 0..(MaxSignal + 3)

InitSignal ==
    /\ cs = SquareConfigure(NewConstraintSystem).meta
    /\ circuit \in {[signal_val |-> v, signal_hash |-> FromU64(v)] : v \in CallerSignals}
    /\ cells = NoCells
    /\ selectors = {}
    /\ instance = <<>>
    /\ pc = "new"
    /\ verdict = "none"

\* let public_inputs = vec![F::from(signal_val * signal_val)]
SignalPublicInput ==
    /\ pc = "new"
    /\ LET product == MulU64(circuit.signal_val, circuit.signal_val)
       IN  \/ /\ product.overflow
              /\ pc' = "panic"
              /\ UNCHANGED instance
           \/ /\ instance' = <<FromU64(product.v)>>
              /\ pc' = "inputs"
    /\ UNCHANGED <<cs, circuit, cells, selectors, verdict>>

\* MockProver::run(k, &signal_circuit, vec![public_inputs])
SynthesizeSignal ==
    /\ pc = "inputs"
    /\ selectors' = selectors \cup {"selector"}
    /\ cells' = SquareSynthesizeCells(circuit)
    /\ pc' = "synthesized"
    /\ UNCHANGED <<cs, circuit, instance, verdict>>

NextSignal == SignalPublicInput \/ SynthesizeSignal \/ VerifySquare

SpecSignal == InitSignal /\ [][NextSignal]_vars

(***************************************************************************)
(* verify_pkcs1v15_signature (lib.rs) on the output bytes of the digest:   *)
(* the limbs it hands to the RSA chip and the bytes it returns             *)
(***************************************************************************)
\* every vector of DigestLen bytes
OutputBytesInputs == [1..DigestLen -> 0..(2^ByteBits - 1)]

\* hashed_bytes.reverse(); ...; hashed_bytes.reverse(); Ok((_, hashed_bytes))
ReturnedHashedBytes(output_bytes) == Reverse(Reverse(output_bytes))

InitPacking ==
    /\ cs = SignatureConfigure(NewConstraintSystem).meta
    /\ circuit \in {[output_bytes |-> b] : b \in OutputBytesInputs}
    /\ cells = NoCells
    /\ selectors = {}
    /\ instance = <<>>
    /\ pc = "new"
    /\ verdict = "none"

\* verify_pkcs1v15_signature from the digest on
VerifyPkcs1v15Signature ==
    /\ pc = "new"
    /\ cells' = [hashed_u64s |-> HashedU64s(circuit.output_bytes),
                 hashed_bytes |-> ReturnedHashedBytes(circuit.output_bytes)]
    /\ pc' = "returned"
    /\ UNCHANGED <<cs, circuit, selectors, instance, verdict>>

NextPacking == VerifyPkcs1v15Signature

SpecPacking == InitPacking /\ [][NextPacking]_vars

(***************************************************************************)
(* TestRSASignatureWithHashCircuit1::synthesize call by call (lib.rs)      *)
(*                                                                         *)
(* pc is the frame of synthesize: where it is, its local first_pass, the   *)
(* cell lists assign_region returned, and the counts of closure            *)
(* invocations and of witness assignments.  selectors holds the copy       *)
(* constraints constrain_instance records: (cell, instance column, row).   *)
(***************************************************************************)
\* SKIP_FIRST_PASS of the two builds of the layouter
SkipFirstPassBuilds == {TRUE, FALSE}

\* the number of times assign_region invokes the region closure: the
\* layouter that measures the region's shape first invokes it twice, and
\* SKIP_FIRST_PASS is true exactly for that layouter
LayouterPasses(skip_first_pass) == IF skip_first_pass THEN 2 ELSE 1

FirstPassInputs ==
    {[private_key |-> c.private_key, msg |-> c.msg, skip_first_pass |-> b] :
        c \in SignatureInputs, b \in SkipFirstPassBuilds}

InitFirstPass ==
    /\ cs = SignatureConfigure(NewConstraintSystem).meta
    /\ circuit \in FirstPassInputs
    /\ cells = NoCells
    /\ selectors = {}
    /\ instance \in SignatureInstanceInputs(circuit)
    /\ pc = [at |-> "assign_region", first_pass |-> circuit.skip_first_pass,
             invocations |-> 0, assignments |-> 0,
             public_key_cells |-> <<>>, hashed_msg_cells |-> <<>>, i |-> 0]
    /\ verdict = "none"

\* the region closure that leaves first_pass set
RegionClosureKeepsFirstPass ==
    /\ pc.at = "assign_region"
    /\ pc.invocations < LayouterPasses(circuit.skip_first_pass)
    /\ IF pc.first_pass
       THEN /\ pc' = [pc EXCEPT !.invocations = @ + 1,
                                !.public_key_cells = <<>>, !.hashed_msg_cells = <<>>]
            /\ UNCHANGED cells
       ELSE /\ cells' = SignatureSynthesizeCells(circuit)
            /\ pc' = [pc EXCEPT !.invocations = @ + 1, !.assignments = @ + 1,
                                !.public_key_cells = NColumn,
                                !.hashed_msg_cells = HashedMsgColumn]
    /\ UNCHANGED <<cs, circuit, selectors, instance, verdict>>

\* one invocation of the region closure by assign_region
RegionClosure ==
    /\ pc.at = "assign_region"
    /\ pc.invocations < LayouterPasses(circuit.skip_first_pass)
    /\ IF pc.first_pass
       THEN /\ pc' = [pc EXCEPT !.first_pass = FALSE, !.invocations = @ + 1,
                                !.public_key_cells = <<>>, !.hashed_msg_cells = <<>>]
            /\ UNCHANGED cells
       ELSE /\ cells' = SignatureSynthesizeCells(circuit)
            /\ pc' = [pc EXCEPT !.invocations = @ + 1, !.assignments = @ + 1,
                                !.public_key_cells = NColumn,
                                !.hashed_msg_cells = HashedMsgColumn]
    /\ UNCHANGED <<cs, circuit, selectors, instance, verdict>>

\* assign_region returns the result of the closure's last invocation
AssignRegionReturn ==
    /\ pc.at = "assign_region"
    /\ pc.invocations = LayouterPasses(circuit.skip_first_pass)
    /\ pc' = [pc EXCEPT !.at = "constrain_instance", !.i = 0]
    /\ UNCHANGED <<cs, circuit, cells, selectors, instance, verdict>>

\* layouter.constrain_instance(cell, config.n_instance, i)?, then
\* layouter.constrain_instance(cell, config.hash_instance, i)?
ConstrainInstance ==
    /\ pc.at = "constrain_instance"
    /\ pc.i < Len(pc.public_key_cells) + Len(pc.hashed_msg_cells)
    /\ LET i == pc.i + 1
           k == Len(pc.public_key_cells)
       IN  selectors' = selectors \cup
              {IF i <= k THEN <<pc.public_key_cells[i], "n_instance", i>>
                         ELSE <<pc.hashed_msg_cells[i - k], "hash_instance", i - k>>}
    /\ pc' = [pc EXCEPT !.i = @ + 1]
    /\ UNCHANGED <<cs, circuit, cells, instance, verdict>>

\* Ok(())
FirstPassReturn ==
    /\ pc.at = "constrain_instance"
    /\ pc.i = Len(pc.public_key_cells) + Len(pc.hashed_msg_cells)
    /\ pc' = [pc EXCEPT !.at = "returned"]
    /\ UNCHANGED <<cs, circuit, cells, selectors, instance, verdict>>

\* the mock prover's verdict: the gates on the assigned cells and the copy
\* constraints recorded
VerifyFirstPass ==
    /\ pc.at = "returned"
    /\ verdict' = IF /\ SignatureColumns \subseteq DOMAIN cells
                     /\ SignatureGates(cells)
                     /\ AssertIsConst(cells)
                     /\ \A e \in selectors :
                           /\ e[3] <= Len(instance[e[2]])
                           /\ cells[e[1]] = instance[e[2]][e[3]]
                  THEN "ok" ELSE "err"
    /\ pc' = [pc EXCEPT !.at = "verified"]
    /\ UNCHANGED <<cs, circuit, cells, selectors, instance>>

NextFirstPass ==
    \/ RegionClosure
    \/ AssignRegionReturn
    \/ ConstrainInstance
    \/ FirstPassReturn
    \/ VerifyFirstPass

SpecFirstPass == InitFirstPass /\ [][NextFirstPass]_vars

(***************************************************************************)
(* The two state loops of IdentityCircuit::synthesize, one iteration at a  *)
(* time (conditional_secrets.rs).  A cell is named by the number of its    *)
(* advice column; pc is the loop synthesize is in and its index i.         *)
(***************************************************************************)
MaxStateLen == 7

NoneVec == [some |-> FALSE, v |-> <<>>]

\* Option<Vec<u8>>: None, and a vector of every length up to MaxStateLen
StateVectors == {NoneVec} \cup {Some([i \in 1..n |-> 9 + i]) : n \in 0..MaxStateLen}

StateLoopInputs ==
    {[c EXCEPT !.state = st, !.qr_data_state = qst] :
        c \in {i \in IdentityInputs :
                  /\ i.reveal_age_above_18 = Some(TRUE) /\ i.age_above_18 = Some(1)
                  /\ i.qr_data_age_above_18 = Some(1)
                  /\ i.reveal_gender = Some(TRUE) /\ i.gender = Some(1)
                  /\ i.reveal_pincode = Some(TRUE) /\ i.reveal_state = Some(TRUE)},
        st \in StateVectors, qst \in StateVectors}

StateLoopConfig == IdentityConfigure(NewConstraintSystem).config

\* the ten scalar cells, assigned before the loops
StateLoopScalarCells(c) ==
    LET q == IdentitySynthesizeCells([c EXCEPT !.state = NoneVec, !.qr_data_state = NoneVec])
    IN  [col \in {StateLoopConfig[name] : name \in DOMAIN q} |->
            q[CHOOSE name \in DOMAIN q : StateLoopConfig[name] = col]]

InitStateLoop ==
    /\ cs = IdentityConfigure(NewConstraintSystem).meta
    /\ circuit \in StateLoopInputs
    /\ cells = NoCells
    /\ selectors = {}
    /\ instance = <<>>
    /\ pc = [at |-> "new", i |-> 0]
    /\ verdict = "none"

\* config.s.enable(&mut region, 0)? and the ten scalar assign_advice calls
StateLoopScalars ==
    /\ pc.at = "new"
    /\ selectors' = selectors \cup {"s"}
    /\ cells' = StateLoopScalarCells(circuit)
    /\ pc' = [at |-> "state", i |-> 0]
    /\ UNCHANGED <<cs, circuit, instance, verdict>>

\* an iteration that takes the column i places after the first of the vector
StateLoopStepUnchecked ==
    /\ pc.at \in {"state", "qr_data_state"}
    /\ LET bytes == UnwrapOr(circuit[pc.at], <<>>)
           columns == StateLoopConfig[pc.at]
       IN  /\ pc.i < Len(bytes)
           /\ cells' = Merge(cells, [col \in {columns[1] + pc.i} |-> FromU64(bytes[pc.i + 1])])
           /\ pc' = [pc EXCEPT !.i = @ + 1]
    /\ UNCHANGED <<cs, circuit, selectors, instance, verdict>>

\* one iteration of for (i, &byte) in state.iter().enumerate(): the index
\* config.state[i] panics when i is not an index of the vector of columns
StateLoopStep ==
    /\ pc.at \in {"state", "qr_data_state"}
    /\ LET bytes == UnwrapOr(circuit[pc.at], <<>>)
           columns == StateLoopConfig[pc.at]
       IN  /\ pc.i < Len(bytes)
           /\ IF pc.i + 1 \in DOMAIN columns
              THEN /\ cells' = Merge(cells, [col \in {columns[pc.i + 1]} |->
                                                FromU64(bytes[pc.i + 1])])
                   /\ pc' = [pc EXCEPT !.i = @ + 1]
              ELSE /\ pc' = [pc EXCEPT !.at = "panic"]
                   /\ UNCHANGED cells
    /\ UNCHANGED <<cs, circuit, selectors, instance, verdict>>

\* the end of a loop; after the second one the closure returns Ok(())
StateLoopEnd ==
    /\ pc.at \in {"state", "qr_data_state"}
    /\ pc.i = Len(UnwrapOr(circuit[pc.at], <<>>))
    /\ IF pc.at = "state"
       THEN /\ pc' = [at |-> "qr_data_state", i |-> 0]
            /\ UNCHANGED verdict
       ELSE /\ pc' = [pc EXCEPT !.at = "returned"]
            /\ verdict' = "Ok"
    /\ UNCHANGED <<cs, circuit, cells, selectors, instance>>

NextStateLoop == StateLoopScalars \/ StateLoopStep \/ StateLoopEnd

SpecStateLoop == InitStateLoop /\ [][NextStateLoop]_vars

(***************************************************************************)
(* Properties of IdentityCircuit                                           *)
(***************************************************************************)
Assigned == pc \in {"synthesized", "tampered", "verified"}

Accepted == pc = "verified" /\ verdict = "ok"

Rejected == pc = "verified" /\ verdict = "err"

\* the (reveal flag, published value, reference value) columns of gender,
\* pincode and the five state bytes
UnmaskedAttributes ==
    {<<"reveal_gender", "gender", "qr_data_gender">>,
     <<"reveal_pincode", "pincode", "qr_data_pincode">>}
    \cup {<<"reveal_state", StateColumn[i], QrDataStateColumn[i]>> : i \in 1..StateLen}

Attributes ==
    UnmaskedAttributes \cup {<<"reveal_age_above_18", "age_above_18", "qr_data_age_above_18">>}

\* C1: on the row where the selector is enabled, the gate reveal*(reveal-1)
\* of each of the four reveal cells evaluates to zero if and only if the cell
\* holds 0 or 1, and no accepted assignment has another value in a reveal cell.
C1_RevealFlagsBoolean ==
    Assigned =>
        \A col \in RevealColumns :
            /\ (RevealConstraint(cells, selectors, col) = 0) <=> (cells[col] \in {0, 1})
            /\ Accepted => cells[col] \in {0, 1}

C1_Witness ==
    /\ Rejected
    /\ cells["reveal_gender"] = FieldModulus - 1
    /\ \A col \in RevealColumns \ {"reveal_gender"} : cells[col] \in {0, 1}

\* C2: every accepted assignment has age_above_18 = reveal_age_above_18 *
\* qr_data_age_above_18; with the flag 0 the published cell is 0 whatever the
\* reference is, with the flag 1 it equals the reference.
C2_AgeMasked ==
    Accepted =>
        /\ cells["age_above_18"]
             = FMul(cells["reveal_age_above_18"], cells["qr_data_age_above_18"])
        /\ cells["reveal_age_above_18"] = 0 => cells["age_above_18"] = 0
        /\ cells["reveal_age_above_18"] = 1
             => cells["age_above_18"] = cells["qr_data_age_above_18"]

C2_Witness ==
    /\ Accepted
    /\ cells["reveal_age_above_18"] = 0
    /\ cells["age_above_18"] = 0
    /\ cells["qr_data_age_above_18"] = 25

\* C3: for gender, pincode and each state byte, an accepted assignment with
\* the reveal flag 1 publishes the reference value and an accepted assignment
\* with the reveal flag 0 publishes 0 (so the reference is not leaked).
C3_UnrevealedPublishesZero ==
    Accepted =>
        \A a \in UnmaskedAttributes :
            /\ cells[a[1]] = 1 => cells[a[2]] = cells[a[3]]
            /\ cells[a[1]] = 0 => cells[a[2]] = 0

\* C4: with an attribute's reveal flag 1, an assignment whose value for that
\* attribute differs from the reference value is rejected, whatever the other
\* attributes hold.
C4_MismatchRejected ==
    (pc = "verified" /\ \E a \in Attributes : cells[a[1]] = 1 /\ cells[a[2]] # cells[a[3]])
        => verdict = "err"

C4_Witness ==
    /\ Rejected
    /\ cells["reveal_state"] = 1
    /\ cells["state_4"] = 14
    /\ cells["qr_data_state_4"] = 15
    /\ \A a \in Attributes \ {<<"reveal_state", "state_4", "qr_data_state_4">>} :
          cells[a[2]] = cells[a[3]]

\* C5: an assignment with all four reveal flags 1 and every published value
\* equal to its reference is accepted.
C5_AllRevealedAccepted ==
    (/\ pc = "verified"
     /\ IdentityColumns \subseteq DOMAIN cells
     /\ \A a \in Attributes : cells[a[1]] = 1 /\ cells[a[2]] = cells[a[3]])
        => verdict = "ok"

C5_Witness ==
    /\ Accepted
    /\ \A col \in RevealColumns : cells[col] = 1
    /\ cells["age_above_18"] = 1 /\ cells["qr_data_age_above_18"] = 1
    /\ cells["gender"] = 1 /\ cells["qr_data_gender"] = 1
    /\ cells["pincode"] = 123456 /\ cells["qr_data_pincode"] = 123456
    /\ \A i \in 1..StateLen :
          cells[StateColumn[i]] = 9 + i /\ cells[QrDataStateColumn[i]] = 9 + i

(***************************************************************************)
(* Properties of DigitBytesToTimestamp                                     *)
(***************************************************************************)
\* the bounds of the six fields of a timestamp
InRange(t) ==
    /\ 1970 <= t.year
    /\ 1 <= t.month /\ t.month <= 12
    /\ 1 <= t.day /\ t.day <= 31
    /\ 0 <= t.hour /\ t.hour <= 23
    /\ 0 <= t.minute /\ t.minute <= 59
    /\ 0 <= t.second /\ t.second <= 59

\* C7: the timestamp gadget accepts every timestamp whose six fields are all
\* in range (1970 <= year, 1 <= month <= 12, 1 <= day <= 31, 0 <= hour <= 23,
\* 0 <= minute <= 59, 0 <= second <= 59).
C7_InRangeAccepted ==
    (pc = "verified" /\ cells = TimestampSynthesizeCells(circuit) /\ InRange(circuit))
        => verdict = "ok"

Honest == SquareSynthesizeCells(circuit)

\* exactly one of the two cells differs from the value synthesize assigned
OneCellChanged ==
    \/ cells["advice_0"] # Honest["advice_0"] /\ cells["advice_1"] = Honest["advice_1"]
    \/ cells["advice_0"] = Honest["advice_0"] /\ cells["advice_1"] # Honest["advice_1"]

\* C9 as stated: every accepted assignment has advice[1] = advice[0]^2, the
\* witness of synthesize is accepted, and changing either cell without
\* recomputing the other is rejected.
C9_TamperRejected ==
    pc = "verified" =>
        /\ verdict = "ok" => cells["advice_1"] = FMul(cells["advice_0"], cells["advice_0"])
        /\ cells = Honest => verdict = "ok"
        /\ OneCellChanged => verdict = "err"

\* C9 as amended: every accepted assignment has advice[1] = advice[0]^2, the
\* witness of synthesize is accepted, changing advice[1] alone is rejected, and
\* changing advice[0] alone is rejected unless the new value is the negation
\* of signal_hash, which has the same square and is accepted.
C9_SquareGate ==
    pc = "verified" =>
        /\ verdict = "ok" => cells["advice_1"] = FMul(cells["advice_0"], cells["advice_0"])
        /\ cells = Honest => verdict = "ok"
        /\ (cells["advice_0"] = Honest["advice_0"] /\ cells["advice_1"] # Honest["advice_1"])
              => verdict = "err"
        /\ (cells["advice_0"] # Honest["advice_0"] /\ cells["advice_1"] = Honest["advice_1"])
              => (verdict = "ok" <=> cells["advice_0"] = FSub(0, Honest["advice_0"]))

C9_Witness ==
    /\ Accepted
    /\ circuit.signal_hash = 5
    /\ cells["advice_0"] = FieldModulus - 5
    /\ cells["advice_1"] = 25

\* C10: the public input in row 0 of the instance column is bound to the
\* signal_hash_squared cell: verification succeeds with a public input equal
\* to v*v and fails with any other public input.
C10_InstanceBound ==
    (pc = "verified" /\ cells = Honest) =>
        (verdict = "ok" <=> instance[1] = FMul(circuit.signal_hash, circuit.signal_hash))

(***************************************************************************)
(* Properties of the composed circuit                                      *)
(***************************************************************************)
\* the (reveal flag, published value) columns and the field of the signed
\* message each attribute is taken from
SignedValue(msg) ==
    {<<"reveal_age_above_18", "age_above_18", FromU64(msg.age_above_18)>>,
     <<"reveal_gender", "gender", FromU64(msg.gender)>>,
     <<"reveal_pincode", "pincode", FromU64(msg.pincode)>>}
    \cup {<<"reveal_state", StateColumn[i], FromU64(msg.state[i])>> : i \in 1..StateLen}

\* C6: in the composed circuit every witness accepted by the signature and
\* conditional disclosure gadgets that reveals an attribute publishes the
\* value of that attribute in the message whose signature is verified.
C6_RevealedValueIsSigned ==
    (/\ pc = "verified"
     /\ verdict.hash_and_sign = "ok"
     /\ verdict.cond_secrets = "ok")
        => \A a \in SignedValue(circuit.hash_and_sign.msg) :
              cells[a[1]] = 1 => cells[a[2]] = a[3]

(***************************************************************************)
(* Properties of NullifierCircuit                                          *)
(***************************************************************************)
NullifierDone == pc.step = "done"

\* the digest of exactly the elements lo..hi (one based) of a photo
DigestOf(photo, lo, hi) == [poseidon |-> [i \in 1..(hi - lo + 1) |-> photo[lo + i - 1]]]

\* C11: the nullifier equals H(seed, H(photo[0..16]), H(photo[16..32])): the
\* first digest absorbs exactly elements 0..15, the second exactly elements
\* 16..31, and the final hash absorbs exactly (seed, h1, h2) in that order.
C11_NullifierFormula ==
    NullifierDone =>
        \A r \in Runs :
            /\ Len(circuit[r].photo) = 32
            /\ cells[r]["first16_hash"] = DigestOf(circuit[r].photo, 1, 16)
            /\ cells[r]["last16_hash"] = DigestOf(circuit[r].photo, 17, 32)
            /\ cells[r]["output"]
                 = [poseidon |-> <<circuit[r].nullifier_seed,
                                   DigestOf(circuit[r].photo, 1, 16),
                                   DigestOf(circuit[r].photo, 17, 32)>>]

C11_Witness ==
    /\ NullifierDone
    /\ circuit[1].nullifier_seed = 12345
    /\ circuit[1].photo = [i \in 1..32 |-> 1]
    /\ cells[1]["output"]
         = [poseidon |-> <<12345, [poseidon |-> [i \in 1..16 |-> 1]],
                           [poseidon |-> [i \in 1..16 |-> 1]]>>]

\* C12: two runs with the same seed and photo produce the same nullifier, and
\* (the hash being collision free) two runs that differ in the seed or in one
\* photo element produce different nullifiers.
C12_NullifierDeterministicInjective ==
    NullifierDone =>
        (cells[1]["output"] = cells[2]["output"] <=> circuit[1] = circuit[2])

C12_Witness ==
    /\ NullifierDone
    /\ circuit[1].nullifier_seed = circuit[2].nullifier_seed
    /\ circuit[1].photo[32] = 1 /\ circuit[2].photo[32] = 2
    /\ \A i \in 1..31 : circuit[1].photo[i] = circuit[2].photo[i]
    /\ cells[1]["output"] # cells[2]["output"]

PublicN == instance.n_instance[1] + 16 * instance.n_instance[2] + 256 * instance.n_instance[3]
PublicDigest ==
    64 * instance.hash_instance[1] + 16 * instance.hash_instance[2]
        + 4 * instance.hash_instance[3] + instance.hash_instance[4]

\* a PKCS1v15 signature of the public digest under the public modulus and e = 65537
ValidSignature(sign) ==
    sign < PublicN /\ PowMod(sign, 65537, PublicN) = Pkcs1v15Pad(PublicDigest)

\* C14: the validity bit is constrained to the constant 1: no assignment whose
\* signature is invalid under the public modulus and e = 65537 is accepted, and
\* the assignment of every valid signature of the message is accepted.
C14_OnlyValidSignatureAccepted ==
    pc = "verified" =>
        /\ verdict = "ok" => (cells["is_valid"] = 1 /\ ValidSignature(cells["sign"]))
        /\ (/\ instance = SignaturePublicInputs(circuit)
            /\ \E sign \in 0..(PublicN - 1) :
                  ValidSignature(sign) /\ cells = SignatureCells(circuit, sign))
              => verdict = "ok"

C14_Witness ==
    /\ pc = "verified"
    /\ verdict = "err"
    /\ cells["is_valid"] = 0
    /\ ~ValidSignature(cells["sign"])
    /\ cells = SignatureCells(circuit, cells["sign"])
    /\ instance = SignaturePublicInputs(circuit)

C14_WitnessValid ==
    /\ pc = "verified"
    /\ verdict = "ok"
    /\ ValidSignature(cells["sign"])

\* the limbs of the modulus, least significant first, and the digest bytes in
\* the order the hash function outputs them
LimbsLsbFirst(n) == <<n % 16, (n \div 16) % 16, (n \div 256) % 16>>
BytesInOrder(d) == <<(d \div 64) % 4, (d \div 16) % 4, (d \div 4) % 4, d % 4>>

\* C15: the signature circuit binds its public inputs: the honest assignment is
\* accepted when n_instance holds the limbs of n, least significant limb
\* first, and hash_instance the digest bytes in order, and it is rejected
\* when any one limb or digest byte of the public inputs differs.
C15_PublicInputsBound ==
    pc = "verified" =>
        /\ verdict = "ok" =>
              /\ \A i \in 1..3 : cells[NColumn[i]] = instance.n_instance[i]
              /\ \A i \in 1..4 : cells[HashedMsgColumn[i]] = instance.hash_instance[i]
        /\ cells = SignatureSynthesizeCells(circuit) =>
              (verdict = "ok" <=>
                  /\ instance.n_instance = LimbsLsbFirst(circuit.private_key.n)
                  /\ instance.hash_instance = BytesInOrder(Sha256Digest(circuit.msg)))

C15_Witness ==
    /\ pc = "verified"
    /\ verdict = "err"
    /\ cells = SignatureSynthesizeCells(circuit)
    /\ instance.n_instance = LimbsLsbFirst(circuit.private_key.n)
    /\ \A i \in 1..3 : instance.hash_instance[i] = BytesInOrder(Sha256Digest(circuit.msg))[i]
    /\ instance.hash_instance[4] # BytesInOrder(Sha256Digest(circuit.msg))[4]

(***************************************************************************)
(* Properties of AadhaarQRVerifierCircuit (qr_data_extractor.rs)           *)
(***************************************************************************)
\* entry i of the public instance, whether it is laid out as one vector or as
\* one vector per column
PublicEntry(i) ==
    IF Len(instance) = 1
    THEN (IF i <= Len(instance[1]) THEN instance[1][i] ELSE 0)
    ELSE InstanceRow(instance, i)

\* C16: the public instance has nine entries in the order nullifier_seed,
\* signal_hash_squared, pubkey_hash, ...; an accepted proof's first entry is
\* the circuit's nullifier seed and its second entry is the square of the
\* signal, never the raw signal_hash witness.
C16_PublicInstance ==
    (Accepted /\ circuit.signal_hash.some /\ circuit.nullifier_seed.some)
        => /\ PublicEntry(1) = circuit.nullifier_seed.v
           /\ PublicEntry(2) = FMul(circuit.signal_hash.v, circuit.signal_hash.v)
\* some witness of the circuit is None
QrMissingWitness ==
    \/ \E f \in QrScalarFields \cup {"nullifier_seed", "signal_hash"} : ~circuit[f].some
    \/ \E f \in QrVectorFields : \E i \in 1..Len(circuit[f]) : ~circuit[f][i].some

\* C20: a circuit with a missing required witness is rejected before any cell
\* is assigned: synthesize substitutes no default value for it, and no
\* accepted assignment comes from it.
C20_MissingWitnessRejected ==
    QrMissingWitness => (cells = NoCells /\ verdict # "ok")

(***************************************************************************)
(* Properties of the composed AadhaarQRVerifierCircuit                     *)
(***************************************************************************)
\* the cells of each sub-circuit
GadgetColumns ==
    [hash_and_sign |-> SignatureColumns, cond_secrets |-> IdentityColumns,
     timestamp |-> TimestampColumns, signal |-> SquareColumns]

Synthesized(g) == GadgetColumns[g] \subseteq DOMAIN cells
Untouched(g) == GadgetColumns[g] \cap DOMAIN cells = {}

\* the sub-circuits 1..k are synthesized and the others are untouched
SynthesizedUpTo(k) ==
    /\ \A j \in 1..k : Synthesized(ComposedOrder[j])
    /\ \A j \in (k + 1)..4 : Untouched(ComposedOrder[j])

\* C17: synthesize runs hash_and_sign, cond_secrets, timestamp, signal in this
\* order and returns Ok only after all four returned Ok; on the first Err it
\* returns at once, and no later sub-circuit is synthesized.
C17_SynthesizeOrder ==
    /\ pc = "new" => SynthesizedUpTo(0)
    /\ pc = "hash_and_sign" => SynthesizedUpTo(1)
    /\ pc = "cond_secrets" => SynthesizedUpTo(2)
    /\ pc = "timestamp" => SynthesizedUpTo(3)
    /\ pc \in {"synthesized", "verified"} => SynthesizedUpTo(4)
    /\ pc = "err" =>
          \E k \in 1..4 : verdict.failed = ComposedOrder[k] /\ SynthesizedUpTo(k - 1)

C17_Witness ==
    /\ pc = "err"
    /\ verdict.failed = "timestamp"
    /\ Synthesized("hash_and_sign") /\ Synthesized("cond_secrets")
    /\ Untouched("timestamp") /\ Untouched("signal")

(***************************************************************************)
(* Properties of the compile phase                                         *)
(***************************************************************************)
BothConfigured == \A r \in Runs : pc[r] = "configured"

C18_NoGateAfterConfigure == [][cs' = cs]_vars

(***************************************************************************)
(* Properties of the sub-circuits synthesized in any order                 *)
(***************************************************************************)
\* the cells of one sub-circuit, by column and row
CellsOfGadget(g) == DOMAIN PlacedCells(ComposedConfig, circuit, g)

\* the assignment and the selectors of the order synthesize uses
RECURSIVE SequentialCells(_)
SequentialCells(k) ==
    IF k = 0 THEN NoCells
    ELSE Merge(SequentialCells(k - 1), PlacedCells(ComposedConfig, circuit, ComposedOrder[k]))

SequentialSelectors ==
    UNION {PlacedSelectors(ComposedConfig, ComposedOrder[k]) : k \in 1..4}

C22_WriteOnce ==
    [][/\ pc' = pc + 1 /\ verdict' = verdict =>
            \E cell \in DOMAIN cells' \ DOMAIN cells : DOMAIN cells' = DOMAIN cells \cup {cell}
       /\ \A cell \in DOMAIN cells : cell \in DOMAIN cells' /\ cells'[cell] = cells[cell]
       /\ verdict = "Ok" => cells' = cells]_vars

C22_Witness ==
    /\ verdict = "Ok"
    /\ circuit.gadget = "IdentityCircuit"
    /\ pc = 21
    /\ cells = IdentitySynthesizeCells(circuit.witness)

(***************************************************************************)
(* Properties of the gate calculate_out                                    *)
(***************************************************************************)
\* C23: the gate calculate_out forces
\* out = total_days_passed * 86400 + hour * 3600 + minute * 60 + second: an
\* assignment is accepted by the gate exactly when its out cell holds that value.
C23_CalculateOut ==
    pc = "verified" =>
        (verdict = "ok" <=>
            Query(cells, "out")
              = (Query(cells, "total_days_passed") * 86400 + cells["hour"] * 3600
                    + cells["minute"] * 60 + cells["second"]) % FieldModulus)

C23_Witness ==
    /\ pc = "verified"
    /\ verdict = "err"
    /\ Query(cells, "total_days_passed") = 19546
    /\ cells["hour"] = 12 /\ cells["minute"] = 34 /\ cells["second"] = 56
    /\ Query(cells, "out") = 12 * 3600 + 34 * 60 + 56

(***************************************************************************)
(* Properties of calculate_days_passed                                     *)
(***************************************************************************)
\* the days from 1970-01-01 to a date of the Gregorian calendar
GregorianDays(t) ==
    365 * (t.year - 1970)
    + Cardinality({y \in 1970..(t.year - 1) : IsLeap(y)})
    + Cardinality({<<m, d>> \in (1..12) \X (1..31) :
                      m < t.month /\ d <= DaysInMonth(t.year, m)})
    + (t.day - 1)

\* C24: for every valid date with year in 1970..2099, calculate_days_passed
\* returns the number of days from 1970-01-01 to that date in the Gregorian
\* calendar, one leap day for every 29 February that lies before the date.
C24_DaysPassedGregorian ==
    pc = "assigned" => cells["total_days_passed"] = GregorianDays(circuit)


(***************************************************************************)
(* Properties of the caller of the signal circuit                          *)
(***************************************************************************)
\* C25: for every signal up to 2^32 - 1 (MaxSignal) the caller's u64 product
\* signal_val * signal_val does not overflow, equals the field square
\* SquareCircuit assigns, neither wraps the field modulus, and the circuit is
\* satisfied; for every larger signal the product overflows: the caller
\* panics or supplies a public input different from the assigned square
C25_SignalSquare ==
    LET s == circuit.signal_val
    IN  /\ s <= MaxSignal =>
              /\ pc # "panic"
              /\ s * s < FieldModulus
              /\ pc # "new" => instance = <<s * s>>
              /\ pc \in {"synthesized", "verified"} =>
                    /\ cells["advice_0"] = s
                    /\ cells["advice_1"] = s * s
                    /\ cells["advice_1"] = instance[1]
              /\ pc = "verified" => verdict = "ok"
        /\ s > MaxSignal =>
              /\ pc \notin {"new", "panic"} =>
                    instance # <<FMul(circuit.signal_hash, circuit.signal_hash)>>
              /\ pc \in {"synthesized", "verified"} => cells["advice_1"] # instance[1]

C25_Witness ==
    /\ Accepted
    /\ circuit.signal_val = MaxSignal
    /\ instance = <<MaxSignal * MaxSignal>>
    /\ cells["advice_1"] = instance[1]


(***************************************************************************)
(* Properties of the digest packing of verify_pkcs1v15_signature           *)
(***************************************************************************)
\* the integer of a vector of bytes read most significant byte first
RECURSIVE BigEndian(_)
BigEndian(bytes) ==
    IF bytes = <<>> THEN 0
    ELSE bytes[Len(bytes)] + 2^ByteBits * BigEndian(SubSeq(bytes, 1, Len(bytes) - 1))

RECURSIVE SumOver(_, _)
SumOver(f, n) == IF n = 0 THEN 0 ELSE f[n] + SumOver(f, n - 1)

\* C26: the digest bytes are packed into (digest bits / limb_bits) limbs
\* whose weighted sum, limb i weighted by 2^(limb_bits * i), is the digest
\* read as a big-endian integer; limb i is the sum over j of
\* reversed_bytes[limb_bytes * i + j] * 2^(8 j); the bytes returned are in
\* the order of the digest's output
C26_DigestPacking ==
    pc = "returned" =>
        LET bytes == circuit.output_bytes
            reversed_bytes == [k \in 1..Len(bytes) |-> bytes[Len(bytes) + 1 - k]]
            limb_bytes == LimbBits \div ByteBits
            limbs == cells.hashed_u64s
        IN  /\ Len(limbs) = (DigestLen * ByteBits) \div LimbBits
            /\ SumOver([i \in 1..Len(limbs) |-> limbs[i] * 2^(LimbBits * (i - 1))], Len(limbs))
                  = BigEndian(bytes)
            /\ \A i \in 1..Len(limbs) :
                  limbs[i] = SumOver([j \in 1..limb_bytes |->
                                         reversed_bytes[limb_bytes * (i - 1) + j]
                                            * 2^(ByteBits * (j - 1))], limb_bytes)
            /\ cells.hashed_bytes = bytes

C26_Witness ==
    /\ pc = "returned"
    /\ circuit.output_bytes = <<1, 2, 3, 0>>
    /\ cells.hashed_u64s = <<12, 6>>
    /\ cells.hashed_bytes = <<1, 2, 3, 0>>


(***************************************************************************)
(* Properties of the signature circuit's synthesize call by call           *)
(***************************************************************************)
\* the copy constraints of the modulus limbs and of the digest bytes
ModulusAndDigestCopies ==
    {<<NColumn[i], "n_instance", i>> : i \in 1..NumLimbs}
        \cup {<<HashedMsgColumn[i], "hash_instance", i>> : i \in 1..DigestLen}

\* C27: when first_pass starts true, the first invocation of the region
\* closure assigns nothing and returns two empty cell lists, the second
\* performs the witness assignment, the assignment has run exactly once when
\* synthesize returns, and the instance constraints are applied to the
\* modulus-limb cells and the digest cells that run assigned
C27_FirstPass ==
    [][circuit.skip_first_pass =>
          /\ pc.at = "assign_region" /\ pc.invocations = 0 /\ pc'.invocations = 1 =>
                /\ cells' = cells
                /\ pc'.assignments = 0
                /\ pc'.public_key_cells = <<>> /\ pc'.hashed_msg_cells = <<>>
          /\ pc.at = "assign_region" /\ pc.invocations = 1 /\ pc'.invocations = 2 =>
                /\ cells' = SignatureSynthesizeCells(circuit)
                /\ pc'.assignments = 1
          /\ pc'.assignments <= 1
          /\ pc'.at \in {"constrain_instance", "returned", "verified"} =>
                /\ pc'.invocations = 2
                /\ pc'.assignments = 1
                /\ Len(pc'.public_key_cells) = NumLimbs
                /\ Len(pc'.hashed_msg_cells) = DigestLen
                /\ selectors' \subseteq ModulusAndDigestCopies
                /\ \A e \in selectors' : e[1] \in DOMAIN cells'
          /\ pc'.at \in {"returned", "verified"} => selectors' = ModulusAndDigestCopies]_vars

C27_Witness ==
    /\ circuit.skip_first_pass
    /\ pc.at = "verified"
    /\ pc.invocations = 2
    /\ pc.assignments = 1
    /\ selectors = ModulusAndDigestCopies
    /\ cells = SignatureSynthesizeCells(circuit)
    /\ verdict = "ok"


(***************************************************************************)
(* Properties of the cells of DigitBytesToTimestamp                        *)
(***************************************************************************)
\* C28: the year, month, day, hour, minute and second cells hold exactly the
\* values of the circuit struct: the year cell holds the year, not its low
\* byte
C28_CellsHoldFields ==
    pc = "synthesized" =>
        \A f \in {"year", "month", "day", "hour", "minute", "second"} :
            cells[f] = FromU64(circuit[f])


(***************************************************************************)
(* Properties of the state loops of IdentityCircuit::synthesize            *)
(***************************************************************************)
\* the advice columns IdentityCircuit::configure declared
ConfiguredStateColumns(field) == {StateLoopConfig[field][i] : i \in 1..StateLen}

C29_WitnessPanic ==
    /\ pc.at = "panic"
    /\ pc.i = StateLen
    /\ Len(UnwrapOr(circuit.state, <<>>)) = StateLen + 1


(***************************************************************************)
(* Properties of the age cells of IdentityCircuit                          *)
(***************************************************************************)
\* C30: every accepted assignment publishes 0 or 1 in age_above_18, and an
\* assignment whose qr_data_age_above_18 is neither 0 nor 1 is rejected
C30_AgeAbove18Boolean ==
    /\ Accepted => cells["age_above_18"] \in {0, 1}
    /\ pc = "verified" /\ cells["qr_data_age_above_18"] \notin {0, 1} => verdict = "err"

====
